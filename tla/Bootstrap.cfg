SPECIFICATION FairBootSpec
CONSTANTS
    Worker = {w1, w2, w3}
    SeedName = admin
    DefaultName = admin
    NoAdmin = NoAdmin
    DocId = {d1, d2, d3}
    MaxTroubles = 2
INVARIANTS
    ServingHasAdmin
PROPERTIES
    RestartRepairs
\* once every worker serves and the troubles are over nothing is left to do
CHECK_DEADLOCK FALSE
