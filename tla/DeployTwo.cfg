SPECIFICATION FairSpec

CONSTANTS
    c1 = c1  c2 = c2  o1 = o1  o2 = o2  q1 = q1  q2 = q2
    None = None
    Ceremonies = {c1, c2}
    Outputs = {o1, o2}
    Policies = {q1, q2}
    MaxContracts = 3
    Faults = {"load", "wallet", "provider", "policy", "deploy", "deploy-late", "submit", "submit-late", "confirm", "configuration", "spend"}
    MaxFaults = 2

CHECK_DEADLOCK FALSE

INVARIANTS
    CeremonyInv
    ArtifactsDescribeEscrows
PROPERTIES
    ImplementsBinding
    CeremonyCompletes
