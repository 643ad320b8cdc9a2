-------------------------------- MODULE Topics --------------------------------
(***************************************************************************)
(* The subscriptions of one user; those of other users are never looked    *)
(* at.  A subscription is a document of user_topics, and subscribing is    *)
(* four awaited calls: find the topic, find the subscription, count the    *)
(* subscriptions, insert one.  Nothing is unique but `_id`.                *)
(***************************************************************************)
EXTENDS Integers, FiniteSets

CONSTANTS
    Request,        \* the user's requests that may be in progress together
    Topic,          \* what topics_coll may hold; the repository only reads it
    NoTopic,
    DocId,          \* values of `_id`
    MaxTopicSubscription

ASSUME RequestAssumption == IsFiniteSet(Request) /\ Request # {}
ASSUME MaxAssumption == MaxTopicSubscription \in Nat \ {0}
ASSUME NoTopicAssumption == NoTopic \notin Topic

VARIABLES
    subs,           \* the user's documents in user_topics
    pc,             \* where each request stands
    topic,          \* the topic it found
    crossed         \* history: topics that two requests were about to insert at once

vars == <<subs, pc, topic, crossed>>

SubDoc == [id : DocId, topic : Topic]
SubsOf(t) == {d \in subs : d.topic = t}
Subscribed(t) == SubsOf(t) # {}
Goto(r, label) == pc' = [pc EXCEPT ![r] = label] /\ UNCHANGED topic
Finish(r) == pc' = [pc EXCEPT ![r] = "idle"] /\ topic' = [topic EXCEPT ![r] = NoTopic]

\* Requests for t that did not find a subscription and may still insert one.
Late(t) == {r \in Request : pc[r] \in {"count", "insert"} /\ topic[r] = t}

-----------------------------------------------------------------------------
\* A topic that is not there is answered 404 and changes nothing.
FindTopic(r) ==
    /\ pc[r] = "idle"
    /\ pc' = [pc EXCEPT ![r] = "find"]
    /\ \E t \in Topic : topic' = [topic EXCEPT ![r] = t]
    /\ UNCHANGED <<subs, crossed>>

\* A mutated form: the subscription is looked up under another field.
FoundNever(r) == FALSE
Found(r) == Subscribed(topic[r])

FindSub(r) ==
    /\ pc[r] = "find"
    /\ IF Found(r) THEN Finish(r) ELSE Goto(r, "count")
    /\ crossed' = IF Late(topic[r]) = {} THEN crossed ELSE crossed \cup {topic[r]}
    /\ UNCHANGED subs

\* A mutated form: off by one.
LimitReachedLate == Cardinality(subs) > MaxTopicSubscription
LimitReached == Cardinality(subs) >= MaxTopicSubscription

Count(r) ==
    /\ pc[r] = "count"
    /\ IF LimitReached THEN Finish(r) ELSE Goto(r, "insert")
    /\ UNCHANGED <<subs, crossed>>

NewSub(r, i) == [id |-> i, topic |-> topic[r]]

Insert(r) ==
    /\ pc[r] = "insert"
    /\ \E i \in DocId :
        /\ \A d \in subs : d.id # i
        /\ subs' = subs \cup {NewSub(r, i)}
    /\ Finish(r)
    /\ UNCHANGED crossed

\* A call raises, or the worker dies.
Abort(r) ==
    /\ pc[r] # "idle"
    /\ Finish(r)
    /\ UNCHANGED <<subs, crossed>>

\* POST /topic/unsubscribe asks for documents with a field userId; subscribing wrote
\* user_id.  Nothing matches, and the user is told to be unsubscribed all the
\* same.
Unsubscribe == UNCHANGED vars

\* delete_item, one of the generic routes of user_topics.
Delete(d) ==
    /\ subs' = subs \ {d}
    /\ UNCHANGED <<pc, topic, crossed>>

Init ==
    /\ subs = {}
    /\ pc = [r \in Request |-> "idle"]
    /\ topic = [r \in Request |-> NoTopic]
    /\ crossed = {}

Subscribe(r) == FindTopic(r) \/ FindSub(r) \/ Count(r) \/ Insert(r)

Next ==
    \/ \E r \in Request : Subscribe(r) \/ Abort(r)
    \/ Unsubscribe
    \/ \E d \in subs : Delete(d)

Spec == Init /\ [][Next]_vars

-----------------------------------------------------------------------------
\* A request that is under way has a topic.
TypeOK ==
    /\ subs \in SUBSET SubDoc
    /\ pc \in [Request -> {"idle", "find", "count", "insert"}]
    /\ topic \in [Request -> Topic \cup {NoTopic}]
    /\ \A r \in Request : topic[r] \in Topic <=> pc[r] # "idle"
    /\ crossed \in SUBSET Topic

\* The limit is exceeded by less than the number of requests in progress, however they
\* interleave and however long the user goes on: requests that counted too early do
\* not add up over time.
OvershootIsBounded == Cardinality(subs) < MaxTopicSubscription + Cardinality(Request)

\* A topic is subscribed to once, unless two requests for it overlapped; then it is
\* subscribed to at most once for each request in progress, since those that come after the
\* first insert find it: duplicates do not add up, whatever is deleted and asked for again.
OneSubscription ==
    /\ \A d, e \in subs : d.topic = e.topic /\ d.topic \notin crossed => d = e
    /\ \A t \in Topic : Cardinality(SubsOf(t)) <= Cardinality(Request)
=============================================================================
