SPECIFICATION CallerSpec
CONSTANTS
    Request = {q1, q2}
    Partition = {p1, p2}
    User = {u1, u2}
    Unset = Unset
    Horizon = 2
    MaxAccounts = 2
    AccountRequest = {a1, a2}
    Name = {n1, n2}
    Email = {e1}
    Person = {k1}
    NameOf <- MCNameOf
    EmailOf <- MCEmailOf
    Admin = Admin
    NoKey = NoKey
    NoRow = NoRow
    MaxRenamings = 1
    Coroutine = {c1, c2}
    Life = 3
    Margin = 1
    Latency = 2
    TokenHorizon = 6
    Verifier = {v1, v2}
    CertsLife = 2
    FetchLimit = 1
    CertsHorizon = 5
    MaxRotations = 2
SYMMETRY AuditSymmetry
INVARIANTS
    EntryIsOfItsRequest
    ContextIsOwn
    OneUserPerPerson
    SentTokensHold
    TrustedSetsAreRecent
PROPERTIES
    ImplementsUserTable
\* once a component's ids, clocks or requests are used up nothing is left to do
CHECK_DEADLOCK FALSE
