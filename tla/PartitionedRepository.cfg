SPECIFICATION InstanceSpec
CONSTANTS
    Code = {a, b}
    DocId = {d1, d2}
    NoParent = NoParent
    NoDoc = NoDoc
    MaxEdits = 1
    Walker = {q1, q2}
    RecordId = {r1}
    NoCode = NoCode
    NoRecord = NoRecord
SYMMETRY RepositorySymmetry
VIEW RepositoryView
\* an upsert without an id waits for a free _id when the instance has none left
CHECK_DEADLOCK FALSE
PROPERTIES
    ImplementsStore
    ScopeSound
    ScopeComplete
    CreatorReaches
