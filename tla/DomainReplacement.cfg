SPECIFICATION ReplaceSpec
CONSTANTS
    Run = {r1, r2}
    Coll = {c1, c2}
    Doc = {d1, d2}
    Edit = {e1, e2}
    Seed = seed
    Pk = {1, 2, 3, 4}
    PageSize = 2
SYMMETRY DomainReplacementSymmetry
INVARIANTS
    EndedIsComplete
    EditsSurvive
    NoRowSkipped
