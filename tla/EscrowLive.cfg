SPECIFICATION FairSpec
CONSTANTS
    c1 = c1
    c2 = c2
    n1 = n1
    n2 = n2
    k1 = k1
    here = here
    elsewhere = elsewhere
    NoDatum = NoDatum
    NoPermit = NoPermit
    NoTx = NoTx
    Nowhere = Nowhere
    Sessions = {c1, c2}
    WalletOf <- MCWalletOf
    Permits <- MCLastingPermits
    Contexts = {here, elsewhere}
    Nullifiers = {n1, n2}
    RelayKeys = {k1}
    Addresses <- MCAddresses
    Script = "script"
    Deployer = "deployer"
    Bystander = "bystander"
    Policy <- MCPolicy
    Inventory = 2
    Window = 1
    Skew = 0
    OtherTransactions <- NoTransactions
    MaxSlot = 1
    MaxMempool = 1
    MaxRefs = 7
PROPERTIES
    EveryoneIsPaid
