SPECIFICATION RedisSpec
CONSTANTS
    Request = {r1, r2}
    Owner = {o}
    Prefix = {f}
    Value = {0}
    Kind = {"dated", "sequence"}
    DayLength = 2
    DatedLife = 4
    SequenceLife = 3
    MaxAge = 2
    Horizon = 4
    MaxNumber = 2
    MaxSettings = 1
    Counter = {k}
    Caller = {c1, c2, c3}
    Base <- IncrementBase
    Nowhere = Nowhere
    MaxSeq = 3
    MaxFailures = 2
    Server = {p1, p2, p3}
    Lease = 2
    CronHorizon = 6
SYMMETRY CodeSymmetry
INVARIANTS
    DatedCodesDistinct
    StoreNeverRepeats
    ResetStartsAnew
    OverlapNeedsOverrun
PROPERTIES
    EndIsFixed
\* once the counters and the failures, or the clock of the lease, are used up nothing is left to do
CHECK_DEADLOCK FALSE
