SPECIFICATION BulkSpec
CONSTANTS
    Import = {r1, r2}
    Sync = {r1, r2}
    k1 = k1
    k2 = k2
    Sheets <- MCSheets
    Scopes <- MCScopes
    Key <- MCKey
    Partition = {p1, p2}
    CodeKey = {p1, p2}
    UserKey = {p3}
    None = None
    DocId = {d1, d2, d3}
    LinkId = {d1, d2, d3}
    Group = {g1}
    NoGroup = NoGroup
    NoItem = NoItem
SYMMETRY ImportSymmetry
\* once every import is done and the documents are deleted nothing is left to do
CHECK_DEADLOCK FALSE
INVARIANTS
    UpsertKeepsKeysUnique
    CreatedIsStored
    LoneSyncIsExact
    OneLink
PROPERTIES
    MovesAsTold
