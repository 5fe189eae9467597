\* Each escrow is paid out once: it is not.
SPECIFICATION LedgerSpec
CONSTANTS
    Addresses = {a1, a2}
    NoAddress = NoAddress
    Signers = {k1}
    NoSigner = NoSigner
    NoSignature = NoSignature
    MaxTime = 2
    MaxU64 = 4
    MaxI128 = 6
    Amounts = {1, 2}
    LockDurations = {0, 1}
    MaxEscrows = 2
    MaxRefunds = 2
    MaxSignatures = 1
INVARIANT
    OnePayoutPerEscrow
CHECK_DEADLOCK FALSE
