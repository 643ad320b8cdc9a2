SPECIFICATION FileSpec
CONSTANTS
    Process = {p1, p2, p3}
    File = {f1}
    Content = {empty, c1}
    Empty = empty
    Object = {o1, o2}
    Garbage = Garbage
    NoContent = NoContent
    NoFile = NoFile
SYMMETRY FileStoreSymmetry
INVARIANTS
    ContentKept
    ReadIsCurrent
