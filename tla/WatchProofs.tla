----------------------------- MODULE WatchProofs -----------------------------
(***************************************************************************)
(* Proofs about Watch: who learns of a blocked name, and what the queue of *)
(* a stream holds.                                                         *)
(***************************************************************************)
EXTENDS Watch, TLAPS

(* Who learns.                                                             *)

\* What the types of Watch have to say here.
WatchShape ==
    /\ link \in [Guardian -> {"none", "pending", "accepted", "rejected"}]
    /\ published \in 0..MaxEvents
    /\ channel \in Seq(1..published)
    /\ sub \in SubRecord
    /\ watched \in [Event -> SUBSET Guardian]
    /\ subs \in SUBSET Endpoint

\* The event at hand was published, and who watches now has watched since any event
\* so far: so whoever is read from the links has watched since the event at hand.
LearnInv ==
    /\ WatchShape
    /\ sub.st \notin {"down", "ready"} => sub.event \in 1..published
    /\ \A g \in Guardian : link[g] = "accepted" => \A e \in 1..published : g \in watched[e]
    /\ OnlyWatchersLearn

LEMMA SeqOfMore ==
    ASSUME NEW S, NEW T, S \subseteq T, NEW s \in Seq(S)
    PROVE  s \in Seq(T)
<1>1. s \in [1..Len(s) -> S] /\ Len(s) \in Nat
  OBVIOUS
<1>2. s \in [1..Len(s) -> T]
  BY <1>1
<1> QED
  BY <1>1, <1>2

LEMMA DownType == Down \in SubRecord /\ Down.st = "down" /\ Ready \in SubRecord /\ Ready.st = "ready"
BY WatchAssumption DEF Down, Ready, SubRecord

LEMMA LearnInit == WatchInit => LearnInv
<1> SUFFICES ASSUME WatchInit PROVE LearnInv
  OBVIOUS
<1>1. published = 0 /\ 0 \in 0..MaxEvents /\ channel \in Seq(1..0)
  BY WatchAssumption DEF WatchInit
<1>2. sub \in SubRecord /\ sub.st = "down"
  BY DownType DEF WatchInit
<1>3. link \in [Guardian -> {"none"}] /\ watched \in [Event -> SUBSET Guardian] /\ subs = {}
  BY DEF WatchInit
<1> QED
  BY <1>1, <1>2, <1>3 DEF LearnInv, WatchShape, OnlyWatchersLearn

\* Links: an acceptance adds the guardian to what is watched, nothing takes one away.
LEMMA LinkStep ==
    ASSUME LearnInv, NEW g \in Guardian, Invite(g) \/ Accept(g) \/ Reject(g) \/ Revoke(g)
    PROVE  LearnInv'
<1>1. UNCHANGED <<published, channel, sub, gone, subs>>
  BY DEF Invite, Accept, Reject, Revoke, eventVars, pushVars
<1>2. CASE Accept(g)
  <2>1. link' = [link EXCEPT ![g] = "accepted"] /\ watched' = [e \in Event |-> watched[e] \cup {g}]
    BY <1>2 DEF Accept
  <2>2. 1..published \subseteq Event
    BY WatchAssumption DEF LearnInv, WatchShape, Event
  <2>3. WatchShape'
    BY <1>1, <2>1 DEF LearnInv, WatchShape
  <2>4. \A h \in Guardian : link'[h] = "accepted" => \A e \in 1..published : h \in watched'[e]
    BY <2>1, <2>2 DEF LearnInv, WatchShape
  <2>5. OnlyWatchersLearn'
    BY <1>1, <2>1, <2>2 DEF LearnInv, OnlyWatchersLearn
  <2> QED
    BY <1>1, <2>3, <2>4, <2>5 DEF LearnInv
<1>3. CASE Invite(g) \/ Reject(g) \/ Revoke(g)
  <2>1. watched' = watched
    BY <1>3 DEF Invite, Reject, Revoke
  <2>2. link' \in [Guardian -> {"none", "pending", "accepted", "rejected"}]
        /\ \A h \in Guardian : link'[h] = "accepted" => link[h] = "accepted"
    BY <1>3 DEF Invite, Reject, Revoke, LearnInv, WatchShape
  <2> QED
    BY <1>1, <2>1, <2>2 DEF LearnInv, WatchShape, OnlyWatchersLearn
<1> QED
  BY <1>2, <1>3

LEMMA PublishStep == LearnInv /\ Publish => LearnInv'
<1> SUFFICES ASSUME LearnInv, Publish PROVE LearnInv'
  OBVIOUS
<1> DEFINE n == published + 1
<1>1. published \in 0..MaxEvents /\ published' = n /\ published < MaxEvents
  BY DEF LearnInv, WatchShape, Publish
<1>2. n \in Event /\ 1..published \subseteq Event /\ 1..published \subseteq 1..n /\ n \notin 1..published
  BY <1>1, WatchAssumption DEF Event
<1>3. link' = link /\ sub' = sub /\ gone' = gone /\ subs' = subs /\ watched' = [watched EXCEPT ![n] = Watchers]
  BY DEF Publish, pushVars
<1>4. channel' \in Seq(1..n)
  <2>1. channel \in Seq(1..published)
    BY DEF LearnInv, WatchShape
  <2>2. channel \in Seq(1..n)
    BY <1>2, <2>1, SeqOfMore
  <2>3. n \in 1..n
    BY <1>1
  <2>4. channel' = channel \/ channel' = Append(channel, n)
    BY DEF Publish
  <2> HIDE DEF n
  <2> QED
    BY <2>2, <2>3, <2>4
<1>5. WatchShape'
  <2>1. n \in 0..MaxEvents
    BY <1>1, WatchAssumption
  <2>2. watched' \in [Event -> SUBSET Guardian]
    BY <1>3 DEF LearnInv, WatchShape, Watchers
  <2> QED
    BY <1>1, <1>3, <1>4, <2>1, <2>2 DEF LearnInv, WatchShape
<1>6. \A e \in 1..published : watched'[e] = watched[e]
  BY <1>2, <1>3 DEF LearnInv, WatchShape
<1>7. watched'[n] = Watchers
  BY <1>2, <1>3 DEF LearnInv, WatchShape
<1>8. \A g \in Guardian : link'[g] = "accepted" => \A e \in 1..n : g \in watched'[e]
  <2>1. \A e \in 1..n : e \in 1..published \/ e = n
    BY <1>1
  <2> QED
    BY <1>3, <1>6, <1>7, <2>1 DEF LearnInv, Watchers
<1>9. OnlyWatchersLearn'
  BY <1>3, <1>6 DEF LearnInv, OnlyWatchersLearn
<1> QED
  BY <1>1, <1>2, <1>3, <1>5, <1>8, <1>9 DEF LearnInv

\* The steps of the subscriber, of the browsers and of failures leave links, events
\* and what is watched alone.
LEMMA SubStep ==
    ASSUME LearnInv, UNCHANGED <<link, watched, published>>,
           channel' \in Seq(1..published), sub' \in SubRecord, subs' \in SUBSET Endpoint,
           sub'.st \notin {"down", "ready"} => sub'.event \in 1..published,
           OnlyWatchersLearn'
    PROVE  LearnInv'
BY DEF LearnInv, WatchShape

LEMMA SubscriberHolds == LearnInv /\ SubscriberStep => LearnInv'
<1> SUFFICES ASSUME LearnInv, SubscriberStep PROVE LearnInv'
  OBVIOUS
<1>1. sub \in SubRecord /\ channel \in Seq(1..published) /\ published \in Nat /\ MaxEvents \in Nat
      /\ published <= MaxEvents
  BY WatchAssumption DEF LearnInv, WatchShape
<1>2. UNCHANGED <<link, watched, published>>
  BY DEF SubscriberStep, Connect, Receive, ReadLinks, FanOut, PushTo, Handled, linkVars, pushVars
<1>0. subs' \in SUBSET Endpoint
  BY DEF SubscriberStep, Connect, Receive, ReadLinks, FanOut, PushTo, Handled, pushVars,
         LearnInv, WatchShape
<1>3. CASE Connect \/ Handled
  <2>1. sub' = Ready /\ channel' = channel
    BY <1>3 DEF Connect, Handled
  <2>2. OnlyWatchersLearn'
    BY <2>1, DownType DEF OnlyWatchersLearn
  <2> QED
    BY <1>1, <1>2, <2>1, <2>2, DownType, SubStep, <1>0
<1>4. CASE Receive
  <2>1. channel # <<>> /\ channel' = Tail(channel) /\ sub' = [Ready EXCEPT !.st = "links", !.event = Head(channel)]
    BY <1>4 DEF Receive
  <2>2. Head(channel) \in 1..published /\ channel' \in Seq(1..published)
    BY <1>1, <2>1
  <2> DEFINE e == Head(channel)
  <2>3. e \in 1..published /\ e \in 0..MaxEvents
    BY <1>1, <2>2
  <2> HIDE DEF e
  <2>4. sub' = [Ready EXCEPT !.st = "links", !.event = e]
    BY <2>1 DEF e
  <2>5. sub' \in SubRecord /\ sub'.st = "links" /\ sub'.event = e
    BY <2>3, <2>4, DownType DEF SubRecord
  <2>6. OnlyWatchersLearn'
    BY <2>5 DEF OnlyWatchersLearn
  <2> QED
    BY <1>2, <2>2, <2>3, <2>5, <2>6, SubStep, <1>0
<1>5. CASE ReadLinks
  <2>1. sub' = [sub EXCEPT !.st = "fanout", !.targets = Targets] /\ channel' = channel /\ sub.st = "links"
    BY <1>5 DEF ReadLinks
  <2>2. Targets \subseteq User
    BY DEF Targets, Watchers, User
  <2>3. sub' \in SubRecord /\ sub'.st = "fanout" /\ sub'.targets = Targets /\ sub'.event = sub.event
    BY <1>1, <2>1, <2>2 DEF SubRecord
  <2>4. sub.event \in 1..published
    BY <2>1 DEF LearnInv
  <2>5. Watchers \subseteq watched[sub.event]
    BY <2>4 DEF LearnInv, Watchers
  <2>6. OnlyWatchersLearn'
    BY <1>2, <2>3, <2>5 DEF OnlyWatchersLearn, Targets
  <2> QED
    BY <1>1, <1>2, <2>1, <2>3, <2>4, <2>6, SubStep, <1>0
<1>6. CASE FanOut
  <2>1. sub' = [sub EXCEPT !.st = "push", !.rest = sub.targets] /\ channel' = channel /\ sub.st = "fanout"
    BY <1>6 DEF FanOut
  <2>2. sub' \in SubRecord /\ sub'.st = "push" /\ sub'.targets = sub.targets /\ sub'.event = sub.event
    BY <1>1, <2>1 DEF SubRecord
  <2>3. OnlyWatchersLearn' /\ sub.event \in 1..published
    BY <1>2, <2>1, <2>2 DEF LearnInv, OnlyWatchersLearn
  <2> QED
    BY <1>1, <1>2, <2>1, <2>2, <2>3, SubStep, <1>0
<1>7. ASSUME NEW u \in User, PushTo(u) PROVE LearnInv'
  <2>1. sub.st = "push" /\ channel' = channel /\ sub' = [sub EXCEPT !.rest = @ \ {u}]
    BY <1>7 DEF PushTo
  <2>2. sub' \in SubRecord /\ sub'.st = "push" /\ sub'.targets = sub.targets /\ sub'.event = sub.event
    BY <1>1, <2>1 DEF SubRecord
  <2>3. OnlyWatchersLearn' /\ sub.event \in 1..published
    BY <1>2, <2>1, <2>2 DEF LearnInv, OnlyWatchersLearn
  <2> QED
    BY <1>1, <1>2, <2>1, <2>2, <2>3, SubStep, <1>0
<1> QED
  BY <1>3, <1>4, <1>5, <1>6, <1>7 DEF SubscriberStep

LEMMA WatchFailure ==
    ASSUME LearnInv, SubscriberFails \/ PushFails \/ PushHangs \/ WatchApiDies
    PROVE  LearnInv'
<1>1. sub \in SubRecord /\ channel \in Seq(1..published) /\ subs \in SUBSET Endpoint
  BY DEF LearnInv, WatchShape
<1>2. UNCHANGED <<link, watched, published, gone, subs>>
  BY DEF SubscriberFails, PushFails, PushHangs, WatchApiDies, linkVars, pushVars
<1>3. channel' \in Seq(1..published)
  <2>1. channel' = channel \/ channel' = <<>>
    BY DEF SubscriberFails, PushFails, PushHangs, WatchApiDies
  <2>2. <<>> \in Seq(1..published)
    OBVIOUS
  <2> QED
    BY <1>1, <2>1, <2>2
<1>4. CASE SubscriberFails \/ WatchApiDies
  <2>1. sub' = Down
    BY <1>4 DEF SubscriberFails, WatchApiDies
  <2>2. OnlyWatchersLearn'
    BY <2>1, DownType DEF OnlyWatchersLearn
  <2> QED
    BY <1>1, <1>2, <1>3, <2>1, <2>2, DownType, SubStep
<1>5. CASE PushFails \/ PushHangs
  <2>1. /\ sub' \in SubRecord
        /\ sub'.st \in {"push", "hung"}
        /\ sub'.event = sub.event
        /\ sub'.targets = sub.targets
        /\ sub.st = "push"
    BY <1>1, <1>5 DEF PushFails, PushHangs, SubRecord
  <2>2. OnlyWatchersLearn' /\ sub.event \in 1..published
    BY <1>2, <2>1 DEF LearnInv, OnlyWatchersLearn
  <2> QED
    BY <1>1, <1>2, <1>3, <2>1, <2>2, SubStep
<1> QED
  BY <1>4, <1>5

\* Streams and subscriptions.
LEMMA BrowserStep ==
    ASSUME LearnInv,
           \/ \E u \in User : OpenStream(u) \/ SendNext(u) \/ CloseStream(u)
           \/ \E e \in Endpoint : Subscribe(e) \/ Unsubscribe(e) \/ EndpointDies(e)
    PROVE  LearnInv'
<1>1. UNCHANGED <<link, watched, published, channel, sub>>
  BY DEF OpenStream, SendNext, CloseStream, Subscribe, Unsubscribe, EndpointDies, linkVars, eventVars, pushVars
<1>2. subs' \in SUBSET Endpoint
  BY DEF OpenStream, SendNext, CloseStream, Subscribe, Unsubscribe, EndpointDies, pushVars, LearnInv, WatchShape
<1>3. sub \in SubRecord /\ channel \in Seq(1..published)
  BY DEF LearnInv, WatchShape
<1>4. OnlyWatchersLearn'
  BY <1>1 DEF LearnInv, OnlyWatchersLearn
<1>5. sub'.st \notin {"down", "ready"} => sub'.event \in 1..published
  BY <1>1 DEF LearnInv
<1> QED
  BY <1>1, <1>2, <1>3, <1>4, <1>5, SubStep

LEMMA WatchStutter == LearnInv /\ UNCHANGED watchVars => LearnInv'
BY DEF watchVars, linkVars, eventVars, pushVars, LearnInv, WatchShape, OnlyWatchersLearn

LEMMA LearnStep == LearnInv /\ [WatchNext]_watchVars => LearnInv'
BY LinkStep, PublishStep, SubscriberHolds, WatchFailure, BrowserStep, WatchStutter DEF WatchNext

LEMMA LearnInvariance == WatchSpec => []LearnInv
BY LearnInit, LearnStep, PTL DEF WatchSpec

\* me.py revoke_link, events.py _handle_event: whoever gets an event has had an
\* accepted link since the name was blocked, for any number of guardians, however
\* far the subscriber is behind and whatever fails.
THEOREM EventsReachWatchersOnly == WatchSpec => []OnlyWatchersLearn
<1>1. LearnInv => OnlyWatchersLearn
  BY DEF LearnInv
<1> QED
  BY <1>1, LearnInvariance, PTL

-----------------------------------------------------------------------------
(* The queues of the streams.                                              *)

InOrder(s) == \A i, j \in DOMAIN s : i < j => s[i] < s[j]

\* q is what is left of f when its first elements are taken away.
Queued(q, f) ==
    /\ Len(q) <= Len(f)
    /\ \A i \in 1..Len(q) : q[i] = f[Len(f) - Len(q) + i]

LEMMA QueuedIsSuffix ==
    ASSUME NEW S, NEW q \in Seq(S), NEW f \in Seq(S), Queued(q, f)
    PROVE  IsSuffix(q, f)
<1> DEFINE m == Len(q)
           n == Len(f)
           rq == [i \in 1..m |-> q[m - i + 1]]
           rf == [i \in 1..n |-> f[n - i + 1]]
<1>1. m \in Nat /\ n \in Nat /\ m <= n
  BY DEF Queued
<1>2. Reverse(q) = rq /\ Reverse(f) = rf
  BY DEF Reverse
<1>3. rq \in Seq(S) /\ Len(rq) = m /\ rf \in Seq(S) /\ Len(rf) = n
  <2>1. \A i \in 1..m : m - i + 1 \in 1..m
    BY <1>1
  <2>2. \A i \in 1..n : n - i + 1 \in 1..n
    BY <1>1
  <2>3. rq \in [1..m -> S] /\ rf \in [1..n -> S]
    BY <2>1, <2>2
  <2> QED
    BY <1>1, <2>3
<1>4. \A i \in 1..m : rq[i] = rf[i]
  <2> SUFFICES ASSUME NEW i \in 1..m PROVE rq[i] = rf[i]
    OBVIOUS
  <2>1. m - i + 1 \in 1..m /\ i \in 1..n /\ n - m + (m - i + 1) = n - i + 1
    BY <1>1
  <2>2. q[m - i + 1] = f[n - i + 1]
    BY <2>1 DEF Queued
  <2> QED
    BY <2>1, <2>2
<1> HIDE DEF m, n, rq, rf
<1>5. SubSeq(rq, 1, m) = [i \in 1..m |-> rq[i]] /\ SubSeq(rf, 1, m) = [i \in 1..m |-> rf[i]]
  BY <1>1, <1>3
<1>6. SubSeq(rq, 1, m) = SubSeq(rf, 1, m)
  BY <1>4, <1>5
<1> QED
  BY <1>1, <1>2, <1>3, <1>6 DEF IsSuffix, IsPrefix

LEMMA QueuedAppend ==
    ASSUME NEW S, NEW q \in Seq(S), NEW f \in Seq(S), NEW e \in S, Queued(q, f)
    PROVE  Queued(Append(q, e), Append(f, e))
BY DEF Queued

LEMMA QueuedTail ==
    ASSUME NEW S, NEW q \in Seq(S), NEW f \in Seq(S), q # <<>>, Queued(q, f)
    PROVE  Queued(Tail(q), f)
BY DEF Queued

\* A queue that takes an event, as the stream does, stays a suffix of the stream.
LEMMA QueuedPut ==
    ASSUME NEW S, NEW q \in Seq(S), NEW f \in Seq(S), NEW e \in S, Queued(q, f)
    PROVE  Put(q, e) \in Seq(S) /\ Queued(Put(q, e), Append(f, e))
<1>1. CASE Len(q) < QueueSize
  BY <1>1, QueuedAppend DEF Put
<1>2. CASE ~(Len(q) < QueueSize)
  <2>1. q # <<>>
    BY <1>2, WatchAssumption
  <2>2. Tail(q) \in Seq(S) /\ Queued(Tail(q), f)
    BY <2>1, QueuedTail
  <2>3. Put(q, e) = Append(Tail(q), e)
    BY <1>2 DEF Put
  <2>4. Append(Tail(q), e) \in Seq(S)
    BY <2>2
  <2>5. Queued(Append(Tail(q), e), Append(f, e))
    BY <2>2, QueuedAppend
  <2> QED
    BY <2>3, <2>4, <2>5
<1> QED
  BY <1>1, <1>2

LEMMA AppendInOrder ==
    ASSUME NEW s \in Seq(Nat), NEW n \in Nat, InOrder(s), \A i \in DOMAIN s : s[i] < n
    PROVE  InOrder(Append(s, n))
<1> SUFFICES ASSUME NEW i \in DOMAIN Append(s, n), NEW j \in DOMAIN Append(s, n), i < j
             PROVE  Append(s, n)[i] < Append(s, n)[j]
  BY DEF InOrder
<1>1. i \in 1..(Len(s) + 1) /\ j \in 1..(Len(s) + 1)
  OBVIOUS
<1>2. i \in DOMAIN s /\ Append(s, n)[i] = s[i]
  BY <1>1
<1>3. CASE j = Len(s) + 1
  BY <1>2, <1>3
<1>4. CASE j # Len(s) + 1
  <2>1. j \in DOMAIN s /\ Append(s, n)[j] = s[j]
    BY <1>1, <1>4
  <2> QED
    BY <1>2, <2>1 DEF InOrder
<1> QED
  BY <1>3, <1>4

LEMMA TailInOrder ==
    ASSUME NEW s \in Seq(Nat), s # <<>>, InOrder(s)
    PROVE  /\ InOrder(Tail(s))
           /\ \A i \in DOMAIN Tail(s) : Head(s) < Tail(s)[i]
           /\ \A i \in DOMAIN Tail(s) : \E j \in DOMAIN s : Tail(s)[i] = s[j]
<1>1. \A i \in DOMAIN Tail(s) : i + 1 \in DOMAIN s /\ Tail(s)[i] = s[i + 1] /\ i \in Nat /\ i >= 1
  OBVIOUS
<1>2. 1 \in DOMAIN s /\ Head(s) = s[1]
  OBVIOUS
<1>3. ASSUME NEW i \in DOMAIN Tail(s), NEW j \in DOMAIN Tail(s), i < j PROVE Tail(s)[i] < Tail(s)[j]
  <2>1. i + 1 < j + 1
    BY <1>1, <1>3
  <2> QED
    BY <1>1, <2>1 DEF InOrder
<1>4. ASSUME NEW i \in DOMAIN Tail(s) PROVE Head(s) < Tail(s)[i]
  <2>1. 1 < i + 1
    BY <1>1
  <2> QED
    BY <1>1, <1>2, <2>1 DEF InOrder
<1> QED
  BY <1>1, <1>3, <1>4 DEF InOrder

\* What the rest of the types of Watch says.
SseShape ==
    /\ stream \in [User -> {"closed", "open"}]
    /\ inbox \in [User -> Seq(Event)]
    /\ gone \in SUBSET Endpoint
    /\ watchFaults \in 0..MaxWatchFaults
    /\ fanned \in [User -> Seq(Event)]

\* n is older than every event on its way.
Ahead(n) == \A j \in DOMAIN channel : n < channel[j]

InHand == sub.st \in {"links", "fanout"}

\* Event numbers only grow along the way of an event: what a stream has had is older
\* than the event at hand until it is fanned out, and that one than all of the
\* channel; what a restart loses leaves the order alone.
StreamInv ==
    /\ InOrder(channel)
    /\ InHand => Ahead(sub.event)
    /\ \A u \in User :
        /\ Queued(inbox[u], fanned[u])
        /\ InOrder(fanned[u])
        /\ \A i \in DOMAIN fanned[u] :
            /\ fanned[u][i] <= published
            /\ Ahead(fanned[u][i])
            /\ InHand => fanned[u][i] < sub.event

LEMMA EventIsNat == Event \subseteq Nat
BY WatchAssumption DEF Event

LEMMA StreamInit == WatchInit => SseShape /\ StreamInv
<1> SUFFICES ASSUME WatchInit PROVE SseShape /\ StreamInv
  OBVIOUS
<1>1. DOMAIN channel = {} /\ \A u \in User : DOMAIN fanned[u] = {} /\ inbox[u] = <<>> /\ fanned[u] = <<>>
  BY DEF WatchInit
<1>2. ~InHand
  BY DownType DEF WatchInit, InHand
<1>3. 0 \in 0..MaxWatchFaults /\ <<>> \in Seq(Event)
  BY WatchAssumption
<1>4. Queued(<<>>, <<>>)
  BY DEF Queued
<1> QED
  BY <1>1, <1>2, <1>3, <1>4 DEF WatchInit, SseShape, StreamInv, InOrder, Ahead

\* A step that gives no stream a new event: what a stream has had is the same or
\* gone, the channel holds nothing new, and the event at hand is the same or none.
LEMMA NothingFanned ==
    ASSUME StreamInv, InOrder(channel'), published' = published,
           \A j \in DOMAIN channel' : \E i \in DOMAIN channel : channel'[j] = channel[i],
           InHand' => InHand /\ sub'.event = sub.event,
           \A u \in User : fanned'[u] = fanned[u] \/ fanned'[u] = <<>>,
           \A u \in User : Queued(inbox'[u], fanned'[u])
    PROVE  StreamInv'
<1>1. \A n : Ahead(n) => Ahead(n)'
  BY DEF Ahead
<1>2. \A u \in User : InOrder(fanned'[u])
  BY DEF StreamInv, InOrder
<1>3. InHand' => Ahead(sub.event)'
  BY <1>1 DEF StreamInv
<1>4. ASSUME NEW u \in User, NEW i \in DOMAIN fanned'[u]
      PROVE  /\ fanned'[u][i] <= published'
             /\ Ahead(fanned[u][i])'
             /\ InHand' => fanned'[u][i] < sub'.event
  <2>1. fanned'[u] = fanned[u]
    BY <1>4
  <2>2. Ahead(fanned[u][i])'
    BY <1>4, <2>1 DEF StreamInv, Ahead
  <2> QED
    BY <1>4, <2>1, <2>2 DEF StreamInv
<1> QED
  BY <1>2, <1>3, <1>4 DEF StreamInv

LEMMA SseStep == LearnInv /\ SseShape /\ [WatchNext]_watchVars => SseShape'
<1> SUFFICES ASSUME LearnInv, SseShape, [WatchNext]_watchVars PROVE SseShape'
  OBVIOUS
<1> USE DEF SseShape
<1>1. CASE \E g \in Guardian : Invite(g) \/ Accept(g) \/ Reject(g) \/ Revoke(g)
  BY <1>1 DEF Invite, Accept, Reject, Revoke, sseVars, pushVars
<1>2. CASE Publish \/ Connect \/ Receive \/ ReadLinks \/ Handled
  BY <1>2 DEF Publish, Connect, Receive, ReadLinks, Handled, sseVars, pushVars
<1>3. CASE FanOut
  <2>1. sub.event \in Event
    BY <1>3, WatchAssumption DEF FanOut, LearnInv, WatchShape, Event
  <2>2. \A u \in User : Put(inbox[u], sub.event) \in Seq(Event) /\ Append(fanned[u], sub.event) \in Seq(Event)
    <3> SUFFICES ASSUME NEW u \in User
                 PROVE  Put(inbox[u], sub.event) \in Seq(Event) /\ Append(fanned[u], sub.event) \in Seq(Event)
      OBVIOUS
    <3>1. inbox[u] \in Seq(Event) /\ fanned[u] \in Seq(Event)
      OBVIOUS
    <3>2. ~(Len(inbox[u]) < QueueSize) => Tail(inbox[u]) \in Seq(Event)
      BY <3>1, WatchAssumption
    <3> QED
      BY <2>1, <3>1, <3>2 DEF Put
  <2>3. inbox' \in [User -> Seq(Event)] /\ fanned' \in [User -> Seq(Event)]
    BY <1>3, <2>2 DEF FanOut
  <2> QED
    BY <1>3, <2>3 DEF FanOut, pushVars
<1>4. ASSUME NEW u \in User, PushTo(u) PROVE SseShape'
  BY <1>4 DEF PushTo, sseVars
<1>5. ASSUME NEW u \in User, OpenStream(u) PROVE SseShape'
  BY <1>5 DEF OpenStream, pushVars
<1>6. ASSUME NEW u \in User, SendNext(u) PROVE SseShape'
  <2>1. Tail(inbox[u]) \in Seq(Event)
    BY <1>6 DEF SendNext
  <2> QED
    BY <1>6, <2>1 DEF SendNext, pushVars
<1>7. ASSUME NEW u \in User, CloseStream(u) PROVE SseShape'
  <2>1. <<>> \in Seq(Event)
    OBVIOUS
  <2> QED
    BY <1>7, <2>1 DEF CloseStream, pushVars
<1>8. ASSUME NEW e \in Endpoint, Subscribe(e) \/ Unsubscribe(e) \/ EndpointDies(e) PROVE SseShape'
  BY <1>8 DEF Subscribe, Unsubscribe, EndpointDies, sseVars
<1>9. CASE SubscriberFails \/ PushFails \/ PushHangs
  <2>1. watchFaults' \in 0..MaxWatchFaults
    BY <1>9, WatchAssumption DEF SubscriberFails, PushFails, PushHangs, WatchFault
  <2> QED
    BY <1>9, <2>1 DEF SubscriberFails, PushFails, PushHangs, sseVars, pushVars
<1>10. CASE WatchApiDies
  <2>1. watchFaults' \in 0..MaxWatchFaults /\ <<>> \in Seq(Event)
    BY <1>10, WatchAssumption DEF WatchApiDies, WatchFault
  <2> QED
    BY <1>10, <2>1 DEF WatchApiDies, pushVars
<1>11. CASE UNCHANGED watchVars
  BY <1>11 DEF watchVars, sseVars, pushVars
<1> QED
  BY <1>1, <1>2, <1>3, <1>4, <1>5, <1>6, <1>7, <1>8, <1>9, <1>10, <1>11 DEF WatchNext, SubscriberStep

\* A new event is younger than all the others.
LEMMA PublishInOrder == LearnInv /\ SseShape /\ StreamInv /\ Publish => StreamInv'
<1> SUFFICES ASSUME LearnInv, SseShape, StreamInv, Publish PROVE StreamInv'
  OBVIOUS
<1> DEFINE n == published + 1
<1>1. published \in Nat /\ published' = n /\ channel \in Seq(1..published)
  BY WatchAssumption DEF LearnInv, WatchShape, Publish
<1>2. sub' = sub /\ inbox' = inbox /\ fanned' = fanned
  BY DEF Publish, sseVars
<1>3. channel \in Seq(Nat) /\ n \in Nat /\ \A i \in DOMAIN channel : channel[i] < n
  <2>1. 1..published \subseteq Nat
    OBVIOUS
  <2>2. channel \in Seq(Nat)
    BY <1>1, <2>1, SeqOfMore
  <2>3. \A i \in DOMAIN channel : channel[i] \in 1..published
    BY <1>1
  <2> QED
    BY <1>1, <2>2, <2>3
<1>4. channel' = channel \/ channel' = Append(channel, n)
  BY DEF Publish
<1> HIDE DEF n
<1>5. InOrder(channel')
  BY <1>3, <1>4, AppendInOrder DEF StreamInv
<1>6. \A j \in DOMAIN channel' : channel'[j] = n \/ (j \in DOMAIN channel /\ channel'[j] = channel[j])
  BY <1>3, <1>4
<1>7. \A m \in Nat : m <= published => m < n
  BY <1>1 DEF n
<1>8. \A m \in Nat : m <= published /\ Ahead(m) => \A j \in DOMAIN channel' : m < channel'[j]
  BY <1>6, <1>7 DEF Ahead
<1>9. InHand => sub.event \in Nat /\ sub.event <= published
  BY <1>1 DEF LearnInv, InHand
<1>10. InHand' => Ahead(sub.event)'
  BY <1>2, <1>8, <1>9 DEF StreamInv, InHand, Ahead
<1>11. ASSUME NEW u \in User, NEW i \in DOMAIN fanned[u]
       PROVE  /\ fanned[u][i] <= n
              /\ \A j \in DOMAIN channel' : fanned[u][i] < channel'[j]
              /\ InHand => fanned[u][i] < sub.event
  <2>1. fanned[u][i] \in Nat
    <3>1. fanned[u] \in Seq(Event)
      BY DEF SseShape
    <3>2. fanned[u][i] \in Event
      BY <3>1
    <3> QED
      BY <3>2, EventIsNat
  <2>2. fanned[u][i] <= published /\ Ahead(fanned[u][i]) /\ (InHand => fanned[u][i] < sub.event)
    BY DEF StreamInv
  <2>3. fanned[u][i] <= n
    BY <1>1, <2>1, <2>2 DEF n
  <2> QED
    BY <1>8, <2>1, <2>2, <2>3
<1> QED
  BY <1>1, <1>2, <1>5, <1>10, <1>11 DEF StreamInv, InHand, Ahead

\* The next event of the channel comes to hand.
LEMMA ReceiveInOrder == LearnInv /\ SseShape /\ StreamInv /\ Receive => StreamInv'
<1> SUFFICES ASSUME LearnInv, SseShape, StreamInv, Receive PROVE StreamInv'
  OBVIOUS
<1>1. channel # <<>> /\ channel' = Tail(channel) /\ sub' = [Ready EXCEPT !.st = "links", !.event = Head(channel)]
  BY DEF Receive
<1>2. published' = published /\ inbox' = inbox /\ fanned' = fanned
  BY DEF Receive, sseVars
<1>3. channel \in Seq(Nat)
  <2>1. 1..published \subseteq Nat /\ channel \in Seq(1..published)
    BY WatchAssumption DEF LearnInv, WatchShape
  <2> QED
    BY <2>1, SeqOfMore
<1>4. sub'.event = Head(channel)
  BY <1>1 DEF Ready, Down
<1>5. /\ InOrder(channel')
      /\ \A i \in DOMAIN channel' : Head(channel) < channel'[i]
      /\ \A i \in DOMAIN channel' : \E j \in DOMAIN channel : channel'[i] = channel[j]
  BY <1>1, <1>3, TailInOrder DEF StreamInv
<1>6. 1 \in DOMAIN channel /\ Head(channel) = channel[1]
  BY <1>1, <1>3
<1>7. \A m : Ahead(m) => m < Head(channel) /\ \A j \in DOMAIN channel' : m < channel'[j]
  BY <1>5, <1>6 DEF Ahead
<1> QED
  BY <1>2, <1>4, <1>5, <1>7 DEF StreamInv, Ahead

\* The event at hand is put after what the streams have had.
LEMMA FanOutInOrder == LearnInv /\ SseShape /\ StreamInv /\ FanOut => StreamInv'
<1> SUFFICES ASSUME LearnInv, SseShape, StreamInv, FanOut PROVE StreamInv'
  OBVIOUS
<1> DEFINE e == sub.event
<1>1. sub.st = "fanout" /\ sub' = [sub EXCEPT !.st = "push", !.rest = sub.targets]
      /\ published' = published /\ channel' = channel
  BY DEF FanOut
<1>2. InHand /\ ~InHand'
  BY <1>1 DEF InHand, LearnInv, WatchShape, SubRecord
<1>3. e \in 1..published /\ e \in Event /\ e \in Nat /\ published \in Nat /\ Ahead(e)
  BY <1>1, <1>2, WatchAssumption DEF LearnInv, WatchShape, Event, StreamInv
<1>4. \A u \in User : \/ inbox'[u] = inbox[u] /\ fanned'[u] = fanned[u]
                      \/ inbox'[u] = Put(inbox[u], e) /\ fanned'[u] = Append(fanned[u], e)
  BY DEF FanOut
<1> HIDE DEF e
<1>5. ASSUME NEW u \in User
      PROVE  /\ Queued(inbox'[u], fanned'[u])
             /\ InOrder(fanned'[u])
             /\ \A i \in DOMAIN fanned'[u] : fanned'[u][i] <= published /\ \A j \in DOMAIN channel : fanned'[u][i] < channel[j]
  <2>1. inbox[u] \in Seq(Event) /\ fanned[u] \in Seq(Event) /\ fanned[u] \in Seq(Nat)
    <3>1. inbox[u] \in Seq(Event) /\ fanned[u] \in Seq(Event)
      BY DEF SseShape
    <3> QED
      BY <3>1, EventIsNat, SeqOfMore
  <2>2. /\ Queued(inbox[u], fanned[u]) /\ InOrder(fanned[u])
        /\ \A i \in DOMAIN fanned[u] : fanned[u][i] <= published /\ Ahead(fanned[u][i]) /\ fanned[u][i] < e
    BY <1>2 DEF StreamInv, e
  <2>3. CASE inbox'[u] = inbox[u] /\ fanned'[u] = fanned[u]
    BY <2>2, <2>3 DEF Ahead
  <2>4. CASE inbox'[u] = Put(inbox[u], e) /\ fanned'[u] = Append(fanned[u], e)
    <3>1. Queued(inbox'[u], fanned'[u])
      BY <1>3, <2>1, <2>2, <2>4, QueuedPut
    <3>2. InOrder(fanned'[u])
      BY <1>3, <2>1, <2>2, <2>4, AppendInOrder
    <3>3. \A i \in DOMAIN fanned'[u] : fanned'[u][i] = e \/ (i \in DOMAIN fanned[u] /\ fanned'[u][i] = fanned[u][i])
      BY <2>1, <2>4
    <3> QED
      BY <1>3, <2>2, <3>1, <3>2, <3>3 DEF Ahead
  <2> QED
    BY <1>4, <2>3, <2>4
<1> QED
  BY <1>1, <1>2, <1>5 DEF StreamInv, Ahead

LEMMA StreamStep == LearnInv /\ SseShape /\ StreamInv /\ [WatchNext]_watchVars => StreamInv'
<1> SUFFICES ASSUME LearnInv, SseShape, StreamInv, [WatchNext]_watchVars PROVE StreamInv'
  OBVIOUS
<1>1. InOrder(channel) /\ InOrder(<<>>) /\ \A q : q = <<>> => Queued(q, q)
  BY DEF StreamInv, InOrder, Queued
<1>2. \A u \in User : Queued(inbox[u], fanned[u])
  BY DEF StreamInv
<1>3. sub \in SubRecord
  BY DEF LearnInv, WatchShape
<1>4. CASE \E g \in Guardian : Invite(g) \/ Accept(g) \/ Reject(g) \/ Revoke(g)
  <2>1. UNCHANGED <<published, channel, sub, inbox, fanned>>
    BY <1>4 DEF Invite, Accept, Reject, Revoke, eventVars, sseVars
  <2> QED
    BY <1>1, <1>2, <2>1, NothingFanned DEF InHand
<1>5. CASE Publish \/ Receive \/ FanOut
  BY <1>5, PublishInOrder, ReceiveInOrder, FanOutInOrder
<1>6. CASE Connect \/ ReadLinks \/ Handled \/ \E u \in User : PushTo(u)
  <2>1. UNCHANGED <<published, channel, inbox, fanned>>
    BY <1>6 DEF Connect, ReadLinks, Handled, PushTo, sseVars
  <2>2. InHand' => InHand /\ sub'.event = sub.event
    <3>1. CASE Connect \/ Handled
      BY <3>1, DownType DEF Connect, Handled, InHand
    <3>2. CASE ReadLinks
      BY <1>3, <3>2 DEF ReadLinks, InHand, SubRecord
    <3>3. CASE \E u \in User : PushTo(u)
      BY <1>3, <3>3 DEF PushTo, InHand, SubRecord
    <3> QED
      BY <1>6, <3>1, <3>2, <3>3
  <2> QED
    BY <1>1, <1>2, <2>1, <2>2, NothingFanned
<1>7. ASSUME NEW u \in User, OpenStream(u) \/ SendNext(u) \/ CloseStream(u) PROVE StreamInv'
  <2>1. UNCHANGED <<published, channel, sub>>
    BY <1>7 DEF OpenStream, SendNext, CloseStream, eventVars
  <2>2. \A w \in User : fanned'[w] = fanned[w] \/ fanned'[w] = <<>>
    BY <1>7 DEF OpenStream, SendNext, CloseStream, SseShape
  <2>3. ASSUME NEW w \in User PROVE Queued(inbox'[w], fanned'[w])
    <3>1. CASE inbox'[w] = inbox[w] /\ fanned'[w] = fanned[w]
      BY <1>2, <3>1
    <3>2. CASE inbox'[w] = <<>> /\ fanned'[w] = <<>>
      BY <1>1, <3>2
    <3>3. CASE inbox[w] # <<>> /\ inbox'[w] = Tail(inbox[w]) /\ fanned'[w] = fanned[w]
      <4>1. inbox[w] \in Seq(Event) /\ fanned[w] \in Seq(Event)
        BY DEF SseShape
      <4> QED
        BY <1>2, <3>3, <4>1, QueuedTail
    <3> QED
      BY <1>7, <3>1, <3>2, <3>3 DEF OpenStream, SendNext, CloseStream, SseShape
  <2> QED
    BY <1>1, <2>1, <2>2, <2>3, NothingFanned DEF InHand
<1>8. ASSUME NEW e \in Endpoint, Subscribe(e) \/ Unsubscribe(e) \/ EndpointDies(e) PROVE StreamInv'
  <2>1. UNCHANGED <<published, channel, sub, inbox, fanned>>
    BY <1>8 DEF Subscribe, Unsubscribe, EndpointDies, eventVars, sseVars
  <2> QED
    BY <1>1, <1>2, <2>1, NothingFanned DEF InHand
<1>9. CASE SubscriberFails \/ PushFails \/ PushHangs
  <2>1. UNCHANGED <<published, inbox, fanned>> /\ (channel' = channel \/ channel' = <<>>)
    BY <1>9 DEF SubscriberFails, PushFails, PushHangs, sseVars
  <2>2. ~InHand'
    <3>1. CASE SubscriberFails
      BY <3>1, DownType DEF SubscriberFails, InHand
    <3>2. CASE PushFails \/ PushHangs
      BY <1>3, <3>2 DEF PushFails, PushHangs, InHand, SubRecord
    <3> QED
      BY <1>9, <3>1, <3>2
  <2> QED
    BY <1>1, <1>2, <2>1, <2>2, NothingFanned
<1>10. CASE WatchApiDies
  <2>1. published' = published /\ channel' = <<>> /\ sub' = Down
        /\ \A u \in User : inbox'[u] = <<>> /\ fanned'[u] = <<>>
    BY <1>10 DEF WatchApiDies
  <2>2. ~InHand'
    BY <2>1, DownType DEF InHand
  <2> QED
    BY <1>1, <2>1, <2>2, NothingFanned
<1>11. CASE UNCHANGED watchVars
  <2>1. UNCHANGED <<published, channel, sub, inbox, fanned>>
    BY <1>11 DEF watchVars, eventVars, sseVars
  <2> QED
    BY <1>1, <1>2, <2>1, NothingFanned DEF InHand
<1> QED
  BY <1>4, <1>5, <1>6, <1>7, <1>8, <1>9, <1>10, <1>11 DEF WatchNext, SubscriberStep

WatchInv == LearnInv /\ SseShape /\ StreamInv

LEMMA WatchInvInit == WatchInit => WatchInv
BY LearnInit, StreamInit DEF WatchInv

LEMMA WatchInvStep == WatchInv /\ [WatchNext]_watchVars => WatchInv'
BY LearnStep, SseStep, StreamStep DEF WatchInv

LEMMA WatchInvariance == WatchSpec => []WatchInv
BY WatchInvInit, WatchInvStep, PTL DEF WatchSpec

LEMMA WatchTypes == WatchInv => WatchTypeOK
<1> SUFFICES ASSUME WatchInv PROVE WatchTypeOK
  OBVIOUS
<1>1. 1..published \subseteq Event
  BY WatchAssumption DEF WatchInv, LearnInv, WatchShape, Event
<1>2. channel \in Seq(Event)
  BY <1>1, SeqOfMore DEF WatchInv, LearnInv, WatchShape
<1>3. sub.st \notin {"down", "ready"} => sub.event \in Event
  BY <1>1 DEF WatchInv, LearnInv
<1> QED
  BY <1>2, <1>3 DEF WatchInv, LearnInv, WatchShape, SseShape, WatchTypeOK

\* events.py EventBus.fanout: what a browser still has to come are the latest events
\* of its stream, each once and in the order in which the names were blocked, for any
\* size of the queue, any number of streams and events, and whatever is lost.
THEOREM LatestEventsWait == WatchSpec => []StreamKeepsLatest
<1>1. WatchInv => StreamKeepsLatest
  <2> SUFFICES ASSUME WatchInv, NEW u \in User
               PROVE  IsSuffix(inbox[u], fanned[u]) /\ InOrder(fanned[u])
    BY DEF StreamKeepsLatest, InOrder
  <2>1. inbox[u] \in Seq(Event) /\ fanned[u] \in Seq(Event)
    BY DEF WatchInv, SseShape
  <2>2. Queued(inbox[u], fanned[u]) /\ InOrder(fanned[u])
    BY DEF WatchInv, StreamInv
  <2> QED
    BY <2>1, <2>2, QueuedIsSuffix
<1> QED
  BY <1>1, WatchInvariance, PTL
=============================================================================
