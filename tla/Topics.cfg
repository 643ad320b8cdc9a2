SPECIFICATION Spec
CONSTANTS
    Request = {r1, r2, r3}
    Topic = {t1, t2}
    NoTopic = NoTopic
    DocId = {d1, d2, d3, d4, d5}
    MaxTopicSubscription = 2
SYMMETRY TopicsSymmetry
INVARIANTS
    OvershootIsBounded
    OneSubscription
