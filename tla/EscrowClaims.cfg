SPECIFICATION Spec
CONSTANTS
    c1 = c1
    c2 = c2
    n1 = n1
    n2 = n2
    k1 = k1
    here = here
    elsewhere = elsewhere
    NoDatum = NoDatum
    NoPermit = NoPermit
    NoTx = NoTx
    Nowhere = Nowhere
    Sessions = {c1, c2}
    WalletOf <- MCWalletOf
    Permits <- MCPermits
    Contexts = {here, elsewhere}
    Nullifiers = {n1, n2}
    RelayKeys = {k1}
    Addresses <- MCAddresses
    Script = "script"
    Deployer = "deployer"
    Bystander = "bystander"
    Policy <- MCPolicy
    Inventory = 1
    Window = 2
    Skew = 1
    OtherTransactions <- NoTransactions
    MaxSlot = 3
    MaxMempool = 2
    MaxRefs = 7
SYMMETRY SessionSymmetry
INVARIANTS
    PlansAgreeWithValidator
    PlansAreIncludable
    ConfirmedIsPaid
