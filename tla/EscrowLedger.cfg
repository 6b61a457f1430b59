SPECIFICATION Spec
CONSTANTS
    c1 = c1
    c2 = c2
    n1 = n1
    n2 = n2
    k1 = k1
    here = here
    elsewhere = elsewhere
    NoDatum = NoDatum
    NoPermit = NoPermit
    NoTx = NoTx
    Nowhere = Nowhere
    Sessions = {}
    WalletOf <- NoWallets
    Permits <- MCPermits
    Contexts = {here, elsewhere}
    Nullifiers = {n1, n2}
    RelayKeys = {k1}
    Addresses <- MCAddresses
    Script = "script"
    Deployer = "deployer"
    Bystander = "bystander"
    Policy <- MCPolicy
    Inventory = 2
    Window = 2
    Skew = 1
    OtherTransactions <- MCOtherTransactions
    MaxSlot = 3
    MaxMempool = 2
    MaxRefs = 7
INVARIANTS
    StateThreadIsUnique
PROPERTIES
    ClaimsAreExact
    ImplementsEscrow
\* Without a session the bounded clock runs out and nothing is left to do.
CHECK_DEADLOCK FALSE
