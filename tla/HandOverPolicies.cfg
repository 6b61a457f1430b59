SPECIFICATION Spec
CONSTANTS
    Policies <- ThePolicies
    Wallets <- TheWallets
    Endpoints <- TheEndpoints
    KeyFiles <- TheKeyFiles
    Numbers <- TheNumbers
    MaxU64 <- TheMaxU64
    None = None
    Refused = Refused
    NotHex = NotHex
    MaxChanges = 2
INVARIANTS
    HandOverIsAccepted
    RunningKeepsAuthority
CHECK_DEADLOCK FALSE
