\* Two escrows, two keys that sign, a pool that reaches its limits.
SPECIFICATION LedgerFairSpec
CONSTANTS
    Addresses = {a1, a2}
    NoAddress = NoAddress
    Signers = {k1, k2}
    NoSigner = NoSigner
    NoSignature = NoSignature
    MaxTime = 1
    MaxU64 = 1
    MaxI128 = 2
    Amounts = {0, 2}
    LockDurations = {0, 1}
    MaxEscrows = 2
    MaxRefunds = 2
    MaxSignatures = 1
INVARIANTS
    LedgerTypeOK
    SettledOnlyWhenDue
    ReleasesAreSigned
    SignaturesBindOneEscrow
PROPERTIES
    PoolTracksTransfers
    KeepsPromise
    UnsignedEscrowsAreReleased
CHECK_DEADLOCK FALSE
