SPECIFICATION FairSpec
CONSTANTS
    kupo = kupo
    ogmios = ogmios
    proof = proof
    Services <- ThreeServices
    Kupo <- kupo
    Ogmios <- ogmios
    Timeout = 2
    Wait = 3
    Interval = 2
    MaxTime = 7
    MaxTip = 2
    MaxChanges = 2
INVARIANTS
    FailHasCause
    DeadlineIsKept
    PassIsOfOneAttempt
PROPERTIES
    Reports
CHECK_DEADLOCK FALSE
