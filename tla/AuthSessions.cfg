SPECIFICATION Spec
CONSTANTS
    User = {u1}
    SessionId = {s1, s2}
    Request = {r1, r2}
    RefreshLife = 2
    WritesMayFail = TRUE
    NoUser = NoUser
    NoAuth = NoAuth
    NoTime = NoTime
    NoSession = NoSession
    MaxTime = 2
SYMMETRY AuthSymmetry
INVARIANTS
    OneDeadline
PROPERTIES
    ImplementsLifecycle
    NoTokensAfterLogout
    NoTokensAfterDelete
\* once every user is deleted and the clock has stopped nothing is left to do
CHECK_DEADLOCK FALSE
