\* One account with two pages, whose user types one of two secrets when joining.
CONSTANTS
    s1 = s1
    s2 = s2
    s3 = s3
    a = a
    b = b
    p1 = p1
    p2 = p2
    p3 = p3
    Secrets <- MCSecrets
    Sessions = {p1, p2, p3}
    Accounts = {a, b}
    AccountOf <- MCAccountOf
    SuppliedBy <- MCSuppliedBy
    Milestone = milestone
    Deployment = deployment
    Terms = terms
    ZeroBytes = zero
    NoSecret = noSecret
    MaxCalls = 1
    MaxLost = 0
    MaxReloads = 0
SPECIFICATION Spec
PROPERTIES
    PrivateStateIsStable
