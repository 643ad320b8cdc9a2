SPECIFICATION FairSpec
CONSTANTS
    Code = {a, b, c}
    DocId = {d1, d2, d3}
    Walker = {w}
    NoParent = NoParent
    NoDoc = NoDoc
    MaxEdits = 1
INVARIANTS
    SubtreeSound
    SubtreeComplete
    RootPathSound
    RootPathComplete
PROPERTIES
    WalkTerminates
