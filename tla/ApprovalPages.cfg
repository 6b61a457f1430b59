\* Two reviewers, one of them with two pages, with a loss, a reload and conflicting
\* proofs; a session that was cut off or refused tries again.
CONSTANTS
    s1 = s1
    s2 = s2
    s3 = s3
    a = a
    b = b
    p1 = p1
    p2 = p2
    p3 = p3
    Secrets = {s1, s2}
    Sessions = {p1, p2, p3}
    Accounts = {a, b}
    AccountOf <- MCAccountOf
    SuppliedBy <- MCOneSecretEach
    Milestone = milestone
    Deployment = deployment
    Terms = terms
    ZeroBytes = zero
    NoSecret = noSecret
    MaxCalls = 1
    MaxLost = 1
    MaxReloads = 1
SPECIFICATION FairSpec
INVARIANTS
    ResultsRankApprovals
    ApprovalInv
    AuthorizedIffBothApproved
    RefusalsAreTruthful
PROPERTIES
    ImplementsApproval
    EventuallyAuthorized
