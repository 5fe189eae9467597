\* A role grant asks for the two approvals of the code; one approval decides
\* about an alert, so that alerts are decided.
SPECIFICATION Spec
CONSTANTS
    Addresses = {a1, a2}
    NoAddress = NoAddress
    MaxTime = 1
    MaxU64 = 4
    MaxI128 = 2
    ReportIds = {}
    AlertIds = {1}
    ProposedRoles = {"Verifier"}
    RequestedApprovals = {0}
    RequestedDelays = {0}
    Bounties = {}
    MinRoleApprovals = 2
    MinRoleDelay = 0
    MinEmergencyApprovals = 1
    MinEmergencyDelay = 1
    MaxProposals = 2
    Signers = {}
    NoSigner = NoSigner
    NoSignature = NoSignature
    Amounts = {1}
    LockDurations = {1}
    MaxEscrows = 1
    MaxRefunds = 1
    MaxSignatures = 1
    CriticalReward = 1
    EmergencyReward = 2
    FundAmounts = {2}
    MaxAlerts = 1
SYMMETRY AddressSymmetry
INVARIANTS
    TypeOK
    AlertsAreDecidedByProposals
    OnlyAdminHoldsRoles
    ConditionsNeedAManager
PROPERTIES
    ImplementsGovernance
    ImplementsEscrowLedger
CHECK_DEADLOCK FALSE
