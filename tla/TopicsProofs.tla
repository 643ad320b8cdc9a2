------------------------------ MODULE TopicsProofs ------------------------------
(***************************************************************************)
(* Theorems about Topics, for any limit and any number of concurrent       *)
(* requests, topics and documents: the type invariant, how far a user can  *)
(* get over the limit, and that only overlapping requests subscribe twice, *)
(* each at most once.                                                      *)
(***************************************************************************)
EXTENDS Topics, FiniteSetTheorems, TLAPS

\* A request is under way exactly when it has a topic, so that a step of one request
\* is a change of its own stage and topic alone.
LEMMA TypeStep == TypeOK /\ [Next]_vars => TypeOK'
<1> SUFFICES ASSUME TypeOK, [Next]_vars PROVE TypeOK'
  OBVIOUS
<1> USE NoTopicAssumption
<1>1. ASSUME NEW r \in Request, FindTopic(r) PROVE TypeOK'
  BY <1>1 DEF TypeOK, FindTopic
<1>2. ASSUME NEW r \in Request, FindSub(r) PROVE TypeOK'
  BY <1>2 DEF TypeOK, FindSub, Finish, Goto
<1>3. ASSUME NEW r \in Request, Count(r) PROVE TypeOK'
  BY <1>3 DEF TypeOK, Count, Finish, Goto
<1>4. ASSUME NEW r \in Request, Insert(r) PROVE TypeOK'
  <2>1. topic[r] \in Topic
    BY <1>4 DEF TypeOK, Insert
  <2>2. subs' \in SUBSET SubDoc
    BY <1>4, <2>1 DEF TypeOK, Insert, NewSub, SubDoc
  <2>3. pc' = [pc EXCEPT ![r] = "idle"] /\ topic' = [topic EXCEPT ![r] = NoTopic]
    BY <1>4 DEF Insert, Finish
  <2>4. crossed' = crossed
    BY <1>4 DEF Insert
  <2> QED
    BY <2>2, <2>3, <2>4 DEF TypeOK
<1>5. ASSUME NEW r \in Request, Abort(r) PROVE TypeOK'
  BY <1>5 DEF TypeOK, Abort, Finish
<1>6. ASSUME Unsubscribe PROVE TypeOK'
  BY <1>6 DEF TypeOK, Unsubscribe, vars
<1>7. ASSUME NEW d \in subs, Delete(d) PROVE TypeOK'
  BY <1>7 DEF TypeOK, Delete
<1>8. CASE UNCHANGED vars
  BY <1>8 DEF TypeOK, vars
<1> QED
  BY <1>1, <1>2, <1>3, <1>4, <1>5, <1>6, <1>7, <1>8 DEF Next, Subscribe

\* Every state of user_topics and of the requests has the types it should have.
THEOREM TypeCorrect == Spec => []TypeOK
<1>1. Init => TypeOK
  BY NoTopicAssumption DEF Init, TypeOK
<1> QED
  BY <1>1, TypeStep, PTL DEF Spec

-----------------------------------------------------------------------------
(***************************************************************************)
(* The limit.  A request that counted too early is one more subscription   *)
(* to come: the sum of both is what the count bounds.                      *)
(***************************************************************************)
Counted == {r \in Request : pc[r] = "insert"}

LimitInv ==
    /\ IsFiniteSet(subs)
    /\ Cardinality(subs) + Cardinality(Counted) < MaxTopicSubscription + Cardinality(Request)

\* The requests that have counted are finitely many.
LEMMA CountedFinite ==
    /\ IsFiniteSet(Counted)
    /\ Cardinality(Counted) \in Nat
    /\ Cardinality(Counted) <= Cardinality(Request)
    /\ Cardinality(Request) \in Nat \ {0}
<1>1. Counted \in SUBSET Request
  BY DEF Counted
<1>2. IsFiniteSet(Counted) /\ Cardinality(Counted) <= Cardinality(Request)
  BY <1>1, FS_Subset, RequestAssumption
<1>3. Cardinality(Counted) \in Nat /\ Cardinality(Request) \in Nat
  BY <1>2, FS_CardinalityType, RequestAssumption
<1>4. Cardinality(Request) # 0
  BY FS_EmptySet, RequestAssumption
<1> QED
  BY <1>2, <1>3, <1>4

\* A step after which no more requests have counted and no more documents are there
\* keeps the bound.
LEMMA LimitKept ==
    ASSUME LimitInv, subs' \subseteq subs, Counted' \subseteq Counted
    PROVE  LimitInv'
<1>1. IsFiniteSet(subs') /\ Cardinality(subs') <= Cardinality(subs)
  BY FS_Subset DEF LimitInv
<1>2. Cardinality(Counted') <= Cardinality(Counted) /\ IsFiniteSet(Counted')
  BY FS_Subset, CountedFinite
<1>3. Cardinality(subs) \in Nat /\ Cardinality(subs') \in Nat /\ Cardinality(Counted') \in Nat
  BY <1>1, <1>2, FS_CardinalityType DEF LimitInv
<1> QED
  BY <1>1, <1>2, <1>3, CountedFinite, MaxAssumption DEF LimitInv

\* The count is the step that bounds; the insert moves one from the requests to the
\* documents.
LEMMA LimitStep == TypeOK /\ LimitInv /\ [Next]_vars => LimitInv'
<1> SUFFICES ASSUME TypeOK, LimitInv, [Next]_vars PROVE LimitInv'
  OBVIOUS
<1>a. Cardinality(subs) \in Nat
  BY FS_CardinalityType DEF LimitInv
<1>1. ASSUME NEW r \in Request, FindTopic(r) PROVE LimitInv'
  <2>1. subs' = subs /\ Counted' \subseteq Counted
    BY <1>1 DEF FindTopic, Counted, TypeOK
  <2> QED
    BY <2>1, LimitKept
<1>2. ASSUME NEW r \in Request, FindSub(r) PROVE LimitInv'
  <2>1. subs' = subs /\ Counted' \subseteq Counted
    BY <1>2 DEF FindSub, Finish, Goto, Counted, TypeOK
  <2> QED
    BY <2>1, LimitKept
<1>3. ASSUME NEW r \in Request, Count(r) PROVE LimitInv'
  <2>1. CASE LimitReached
    <3>1. subs' = subs /\ Counted' \subseteq Counted
      BY <1>3, <2>1 DEF Count, Finish, Counted, TypeOK
    <3> QED
      BY <3>1, LimitKept
  <2>2. CASE ~ LimitReached
    <3>1. subs' = subs /\ Counted' = Counted \cup {r} /\ r \notin Counted
      BY <1>3, <2>2 DEF Count, Goto, Counted, TypeOK
    <3>2. Counted' \in SUBSET Request
      BY <3>1 DEF Counted
    <3>3. Cardinality(Counted') <= Cardinality(Request) /\ IsFiniteSet(Counted')
      BY <3>2, FS_Subset, RequestAssumption
    <3>4. Cardinality(Counted') \in Nat
      BY <3>3, FS_CardinalityType
    <3>5. Cardinality(subs) < MaxTopicSubscription
      BY <2>2, <1>a, MaxAssumption DEF LimitReached
    <3>6. Cardinality(subs) + Cardinality(Counted') < MaxTopicSubscription + Cardinality(Request)
      BY <1>a, <3>3, <3>4, <3>5, CountedFinite, MaxAssumption
    <3> QED
      BY <3>1, <3>6 DEF LimitInv
  <2> QED
    BY <2>1, <2>2
<1>4. ASSUME NEW r \in Request, Insert(r) PROVE LimitInv'
  <2>1. PICK i \in DocId : subs' = subs \cup {NewSub(r, i)}
    BY <1>4 DEF Insert
  <2>2. IsFiniteSet(subs') /\ Cardinality(subs') <= Cardinality(subs) + 1
    BY <2>1, <1>a, FS_AddElement DEF LimitInv
  <2>3. Counted' = Counted \ {r} /\ r \in Counted
    BY <1>4 DEF Insert, Finish, Counted, TypeOK
  <2>4. Cardinality(Counted') = Cardinality(Counted) - 1
    BY <2>3, CountedFinite, FS_RemoveElement
  <2>5. Cardinality(subs') \in Nat
    BY <2>2, FS_CardinalityType
  <2>6. Cardinality(subs') + Cardinality(Counted') < MaxTopicSubscription + Cardinality(Request)
    BY <1>a, <2>2, <2>4, <2>5, CountedFinite, MaxAssumption DEF LimitInv
  <2> QED
    BY <2>2, <2>6 DEF LimitInv
<1>5. ASSUME NEW r \in Request, Abort(r) PROVE LimitInv'
  <2>1. subs' = subs /\ Counted' \subseteq Counted
    BY <1>5 DEF Abort, Finish, Counted, TypeOK
  <2> QED
    BY <2>1, LimitKept
<1>6. ASSUME Unsubscribe PROVE LimitInv'
  BY <1>6, LimitKept DEF Unsubscribe, vars, Counted
<1>7. ASSUME NEW d \in subs, Delete(d) PROVE LimitInv'
  <2>1. subs' \subseteq subs /\ Counted' \subseteq Counted
    BY <1>7 DEF Delete, Counted
  <2> QED
    BY <2>1, LimitKept
<1>8. CASE UNCHANGED vars
  BY <1>8, LimitKept DEF vars, Counted
<1> QED
  BY <1>1, <1>2, <1>3, <1>4, <1>5, <1>6, <1>7, <1>8 DEF Next, Subscribe

\* Nothing has been counted when there is nothing.
LEMMA LimitInitial == Init => LimitInv
<1> SUFFICES ASSUME Init PROVE LimitInv
  OBVIOUS
<1>1. subs = {} /\ Counted = {}
  BY DEF Init, Counted
<1> QED
  BY <1>1, FS_EmptySet, CountedFinite, MaxAssumption DEF LimitInv

\* However requests interleave, a user has less than the limit and the number of
\* concurrent requests together.
THEOREM OvershootCorrect == Spec => []OvershootIsBounded
<1>1. LimitInv => OvershootIsBounded
  <2> SUFFICES ASSUME LimitInv PROVE OvershootIsBounded
    OBVIOUS
  <2>1. Cardinality(subs) \in Nat
    BY FS_CardinalityType DEF LimitInv
  <2> QED
    BY <2>1, CountedFinite, MaxAssumption DEF LimitInv, OvershootIsBounded
<1> QED
  BY <1>1, TypeCorrect, LimitInitial, LimitStep, PTL DEF Spec

-----------------------------------------------------------------------------
(***************************************************************************)
(* One document per topic.  While no two requests for a topic overlapped,  *)
(* at most one of them is past the search, and only when the search was    *)
(* right: there is no document.                                            *)
(***************************************************************************)
AloneInv ==
    \A t \in Topic \ crossed :
        /\ \A r, q \in Late(t) : r = q
        /\ Subscribed(t) => Late(t) = {}
        /\ \A d, e \in subs : d.topic = t /\ e.topic = t => d = e

\* A step after which no more requests are late and no more documents are there keeps
\* the invariant.
LEMMA AloneKept ==
    ASSUME AloneInv, subs' \subseteq subs, crossed \subseteq crossed',
           \A t \in Topic : Late(t)' \subseteq Late(t)
    PROVE  AloneInv'
BY DEF AloneInv, Subscribed, SubsOf

\* Finding nothing makes a request late, inserting ends that.
LEMMA AloneStep == TypeOK /\ AloneInv /\ [Next]_vars => AloneInv'
<1> SUFFICES ASSUME TypeOK, AloneInv, [Next]_vars PROVE AloneInv'
  OBVIOUS
<1>1. ASSUME NEW r \in Request, FindTopic(r) PROVE AloneInv'
  <2>1. \A t \in Topic : Late(t)' \subseteq Late(t)
    BY <1>1 DEF FindTopic, Late, TypeOK
  <2> QED
    BY <1>1, <2>1, AloneKept DEF FindTopic
<1>2. ASSUME NEW r \in Request, FindSub(r) PROVE AloneInv'
  <2>0. subs' = subs /\ crossed \subseteq crossed'
    BY <1>2 DEF FindSub
  <2>1. CASE Found(r)
    <3>1. \A t \in Topic : Late(t)' \subseteq Late(t)
      BY <1>2, <2>1 DEF FindSub, Finish, Late, TypeOK
    <3> QED
      BY <2>0, <3>1, AloneKept
  <2>2. CASE ~ Found(r)
    <3>1. topic' = topic /\ pc' = [pc EXCEPT ![r] = "count"]
      BY <1>2, <2>2 DEF FindSub, Goto
    <3>2. \A t \in Topic : Late(t)' \subseteq IF t = topic[r] THEN Late(t) \cup {r} ELSE Late(t)
      BY <3>1 DEF Late, TypeOK
    <3>3. topic[r] \notin crossed' => Late(topic[r]) = {}
      BY <1>2 DEF FindSub
    <3>4. ~ Subscribed(topic[r])
      BY <2>2 DEF Found
    <3> SUFFICES ASSUME NEW t \in Topic \ crossed' PROVE
             /\ \A q, p \in Late(t)' : q = p
             /\ Subscribed(t)' => Late(t)' = {}
             /\ \A d, e \in subs' : d.topic = t /\ e.topic = t => d = e
      BY <3>1 DEF AloneInv, Late, Subscribed, SubsOf
    <3>5. Subscribed(t)' = Subscribed(t)
      BY <2>0 DEF Subscribed, SubsOf
    <3> QED
      BY <2>0, <3>2, <3>3, <3>4, <3>5 DEF AloneInv
  <2> QED
    BY <2>1, <2>2
<1>3. ASSUME NEW r \in Request, Count(r) PROVE AloneInv'
  <2>1. \A t \in Topic : Late(t)' \subseteq Late(t)
    BY <1>3 DEF Count, Finish, Goto, Late, TypeOK
  <2> QED
    BY <1>3, <2>1, AloneKept DEF Count
<1>4. ASSUME NEW r \in Request, Insert(r) PROVE AloneInv'
  <2>1. PICK i \in DocId : subs' = subs \cup {NewSub(r, i)}
    BY <1>4 DEF Insert
  <2>2. NewSub(r, i).topic = topic[r]
    BY DEF NewSub
  <2>3. topic[r] \in Topic /\ r \in Late(topic[r])
    BY <1>4 DEF Insert, Late, TypeOK
  <2>4. \A t \in Topic : Late(t)' \subseteq Late(t) \ {r}
    BY <1>4, NoTopicAssumption DEF Insert, Finish, Late, TypeOK
  <2>5. crossed' = crossed
    BY <1>4 DEF Insert
  <2> SUFFICES ASSUME NEW t \in Topic \ crossed PROVE
           /\ \A q, p \in Late(t)' : q = p
           /\ Subscribed(t)' => Late(t)' = {}
           /\ \A d, e \in subs' : d.topic = t /\ e.topic = t => d = e
    BY <2>5 DEF AloneInv, Late, Subscribed, SubsOf
  <2>6. CASE t = topic[r]
    <3>1. Late(t)' = {} /\ ~ Subscribed(t)
      BY <2>3, <2>4, <2>6 DEF AloneInv
    <3> QED
      BY <2>1, <3>1 DEF Subscribed, SubsOf
  <2>7. CASE t # topic[r]
    <3>1. \A d \in subs' : d.topic = t => d \in subs
      BY <2>1, <2>2, <2>7
    <3>2. Subscribed(t)' => Subscribed(t)
      BY <3>1 DEF Subscribed, SubsOf
    <3> QED
      BY <2>4, <3>1, <3>2 DEF AloneInv
  <2> QED
    BY <2>6, <2>7
<1>5. ASSUME NEW r \in Request, Abort(r) PROVE AloneInv'
  <2>1. \A t \in Topic : Late(t)' \subseteq Late(t)
    BY <1>5 DEF Abort, Finish, Late, TypeOK
  <2> QED
    BY <1>5, <2>1, AloneKept DEF Abort
<1>6. ASSUME Unsubscribe PROVE AloneInv'
  BY <1>6, AloneKept DEF Unsubscribe, vars, Late
<1>7. ASSUME NEW d \in subs, Delete(d) PROVE AloneInv'
  <2>1. subs' \subseteq subs /\ crossed' = crossed /\ \A t \in Topic : Late(t)' = Late(t)
    BY <1>7 DEF Delete, Late
  <2> QED
    BY <2>1, AloneKept
<1>8. CASE UNCHANGED vars
  BY <1>8, AloneKept DEF vars, Late
<1> QED
  BY <1>1, <1>2, <1>3, <1>4, <1>5, <1>6, <1>7, <1>8 DEF Next, Subscribe

-----------------------------------------------------------------------------
(***************************************************************************)
(* How many documents of one topic.  A request that did not find one is    *)
(* one more to come, and it is the only way to more: while there is a      *)
(* document every request that comes finds it.                             *)
(***************************************************************************)
FewInv == \A t \in Topic : Cardinality(SubsOf(t)) + Cardinality(Late(t)) <= Cardinality(Request)

\* What is counted here is finite.
LEMMA FewFinite ==
    ASSUME LimitInv, NEW t \in Topic
    PROVE  /\ IsFiniteSet(SubsOf(t)) /\ Cardinality(SubsOf(t)) \in Nat
           /\ IsFiniteSet(Late(t)) /\ Cardinality(Late(t)) \in Nat
           /\ Cardinality(Late(t)) <= Cardinality(Request)
<1>1. SubsOf(t) \in SUBSET subs /\ Late(t) \in SUBSET Request
  BY DEF SubsOf, Late
<1>2. IsFiniteSet(SubsOf(t)) /\ IsFiniteSet(Late(t)) /\ Cardinality(Late(t)) <= Cardinality(Request)
  BY <1>1, FS_Subset, RequestAssumption DEF LimitInv
<1> QED
  BY <1>2, FS_CardinalityType

\* A step after which no more requests are late and no more documents are there keeps
\* the bound of a topic.
LEMMA FewKept ==
    ASSUME LimitInv, FewInv, NEW t \in Topic, SubsOf(t)' \subseteq SubsOf(t), Late(t)' \subseteq Late(t)
    PROVE  Cardinality(SubsOf(t)') + Cardinality(Late(t)') <= Cardinality(Request)
<1>1. /\ Cardinality(SubsOf(t)') <= Cardinality(SubsOf(t)) /\ IsFiniteSet(SubsOf(t)')
      /\ Cardinality(Late(t)') <= Cardinality(Late(t)) /\ IsFiniteSet(Late(t)')
  BY FewFinite, FS_Subset
<1>2. Cardinality(SubsOf(t)') \in Nat /\ Cardinality(Late(t)') \in Nat
  BY <1>1, FS_CardinalityType
<1> QED
  BY <1>1, <1>2, FewFinite, CountedFinite DEF FewInv

\* A set grows by at most one.
LEMMA OneMore ==
    ASSUME NEW S, NEW x, IsFiniteSet(S)
    PROVE  IsFiniteSet(S \cup {x}) /\ Cardinality(S \cup {x}) <= Cardinality(S) + 1
<1>1. Cardinality(S) \in Nat
  BY FS_CardinalityType
<1> QED
  BY <1>1, FS_AddElement

\* A request is late only while there is no document; an insert moves one from the
\* requests to the documents.
LEMMA FewStep == TypeOK /\ LimitInv /\ FewInv /\ [Next]_vars => FewInv'
<1> SUFFICES ASSUME TypeOK, LimitInv, FewInv, [Next]_vars, NEW t \in Topic
             PROVE  Cardinality(SubsOf(t)') + Cardinality(Late(t)') <= Cardinality(Request)
  BY DEF FewInv
<1>1. ASSUME NEW r \in Request, FindTopic(r)
      PROVE  SubsOf(t)' \subseteq SubsOf(t) /\ Late(t)' \subseteq Late(t)
  BY <1>1 DEF FindTopic, Late, SubsOf, TypeOK
<1>2. ASSUME NEW r \in Request, FindSub(r)
      PROVE  Cardinality(SubsOf(t)') + Cardinality(Late(t)') <= Cardinality(Request)
  <2>1. CASE Found(r) \/ t # topic[r]
    <3>1. SubsOf(t)' \subseteq SubsOf(t) /\ Late(t)' \subseteq Late(t)
      BY <1>2, <2>1 DEF FindSub, Finish, Goto, Late, SubsOf, TypeOK
    <3> QED
      BY <3>1, FewKept
  <2>2. CASE ~ Found(r) /\ t = topic[r]
    <3>1. SubsOf(t)' = {}
      BY <1>2, <2>2 DEF FindSub, Found, Subscribed, SubsOf
    <3>2. Late(t)' \in SUBSET Request
      BY DEF Late
    <3>3. Cardinality(Late(t)') <= Cardinality(Request) /\ IsFiniteSet(Late(t)')
      BY <3>2, FS_Subset, RequestAssumption
    <3>4. Cardinality(Late(t)') \in Nat /\ Cardinality(SubsOf(t)') = 0
      BY <3>1, <3>3, FS_CardinalityType, FS_EmptySet
    <3> QED
      BY <3>3, <3>4, CountedFinite
  <2> QED
    BY <2>1, <2>2
<1>3. ASSUME NEW r \in Request, Count(r)
      PROVE  SubsOf(t)' \subseteq SubsOf(t) /\ Late(t)' \subseteq Late(t)
  BY <1>3 DEF Count, Finish, Goto, Late, SubsOf, TypeOK
<1>4. ASSUME NEW r \in Request, Insert(r)
      PROVE  Cardinality(SubsOf(t)') + Cardinality(Late(t)') <= Cardinality(Request)
  <2>1. PICK i \in DocId : subs' = subs \cup {NewSub(r, i)}
    BY <1>4 DEF Insert
  <2>2. NewSub(r, i).topic = topic[r]
    BY DEF NewSub
  <2>3. CASE t # topic[r]
    <3>1. SubsOf(t)' \subseteq SubsOf(t)
      BY <2>1, <2>2, <2>3 DEF SubsOf
    <3>2. Late(t)' \subseteq Late(t)
      BY <1>4, NoTopicAssumption DEF Insert, Finish, Late, TypeOK
    <3> QED
      BY <3>1, <3>2, FewKept
  <2>4. CASE t = topic[r]
    <3>1. SubsOf(t)' = SubsOf(t) \cup {NewSub(r, i)}
      BY <2>1, <2>2, <2>4 DEF SubsOf
    <3>2. IsFiniteSet(SubsOf(t)') /\ Cardinality(SubsOf(t)') <= Cardinality(SubsOf(t)) + 1
      BY <3>1, FewFinite, OneMore
    <3>3. r \in Late(t) /\ Late(t)' = Late(t) \ {r}
      BY <1>4, <2>4, NoTopicAssumption DEF Insert, Finish, Late, TypeOK
    <3>4. Cardinality(Late(t)') = Cardinality(Late(t)) - 1
      BY <3>3, FewFinite, FS_RemoveElement
    <3>5. Cardinality(SubsOf(t)') \in Nat
      BY <3>2, FS_CardinalityType
    <3> QED
      BY <3>2, <3>4, <3>5, FewFinite, CountedFinite DEF FewInv
  <2> QED
    BY <2>3, <2>4
<1>5. ASSUME NEW r \in Request, Abort(r)
      PROVE  SubsOf(t)' \subseteq SubsOf(t) /\ Late(t)' \subseteq Late(t)
  BY <1>5 DEF Abort, Finish, Late, SubsOf, TypeOK
<1>6. ASSUME NEW d \in subs, Delete(d)
      PROVE  SubsOf(t)' \subseteq SubsOf(t) /\ Late(t)' \subseteq Late(t)
  BY <1>6 DEF Delete, Late, SubsOf
<1>7. CASE UNCHANGED vars
  BY <1>7, FewKept DEF vars, Late, SubsOf
<1> QED
  BY <1>1, <1>2, <1>3, <1>4, <1>5, <1>6, <1>7, FewKept DEF Next, Subscribe, Unsubscribe

\* A user has a topic twice only when two requests for it overlapped, and never more
\* often than requests are in progress.
THEOREM OneSubscriptionCorrect == Spec => []OneSubscription
<1>1. Init => AloneInv /\ FewInv
  <2> SUFFICES ASSUME Init PROVE AloneInv /\ FewInv
    OBVIOUS
  <2>1. \A t \in Topic : SubsOf(t) = {} /\ Late(t) = {}
    BY DEF Init, SubsOf, Late
  <2> QED
    BY <2>1, FS_EmptySet, CountedFinite DEF Init, AloneInv, FewInv, Subscribed
<1>2. TypeOK /\ LimitInv /\ AloneInv /\ FewInv => OneSubscription
  <2> SUFFICES ASSUME TypeOK, LimitInv, AloneInv, FewInv PROVE OneSubscription
    OBVIOUS
  <2>1. \A d, e \in subs : d.topic = e.topic /\ d.topic \notin crossed => d = e
    BY DEF TypeOK, AloneInv, SubDoc
  <2>2. \A t \in Topic : Cardinality(SubsOf(t)) <= Cardinality(Request)
    BY FewFinite, CountedFinite DEF FewInv
  <2> QED
    BY <2>1, <2>2 DEF OneSubscription
<1> QED
  BY <1>1, <1>2, TypeCorrect, LimitInitial, LimitStep, AloneStep, FewStep, PTL DEF Spec
=============================================================================
