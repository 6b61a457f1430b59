SPECIFICATION Spec
CONSTANTS
    r1 = r1
    r2 = r2
    t1 = t1
    t2 = t2
    t3 = t3
    k1 = k1
    k2 = k2
    NoPermit = NoPermit
    Torn = Torn
    Requests = {r1, r2}
    Transactions = {t1, t2, t3}
    Authorizing = {t1, t2}
    Slots = {1, 2}
    RelayKeys = {k1, k2}
    MaxFailures = 1
    MaxRestarts = 1
SYMMETRY RelaySymmetry
INVARIANTS
    PromisesAreKept
    StoredIsAuthorized
    RelayInv
PROPERTIES
    AnswersCarryTheKey
    ImplementsRegister
