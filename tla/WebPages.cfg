SPECIFICATION FairSpec

CONSTANTS
    p1 = p1  p2 = p2  r1 = r1  r2 = r2
    None = None
    Pages = {p1, p2}
    Reviewers = {r1, r2}
    ReviewersAt <- SharedBrowsers
    Beneficiary = {p1}
    Lifetime = 1
    MaxSlot = 2
    MaxClaims = 3
    Faults = {"wallet", "approve", "timeout", "relay", "forged", "provider", "submit", "confirm", "lost", "reload"}
    MaxFaults = 2

CHECK_DEADLOCK FALSE

INVARIANTS
    FlowInv
    ShownIsTrue
    CompletionIsTrue
    RetryIsOffered
PROPERTIES
    ProgressIsKept
    ImplementsNightPermit
    AuthorizedIsPaid
