SPECIFICATION Spec
CONSTANTS
    Base = 3
    Id = 1
    Hash = 2
    U32 = 1
    U64 = 2
    MaxAssetNameBytes = 1
    MaxPermitBytes = 31
    Magic <- TheMagic
    CardanoMagic = 2
    Permits <- SomePermits
    MaxDamage = 2
INVARIANTS
    RoundTrip
    ReadersAgree
    OneEncoding
CHECK_DEADLOCK FALSE
