\* A report is accepted: it is not.  The values of the code where they matter: an
\* address is written as "Address(..)".
SPECIFICATION WholeSpec
CONSTANTS
    Addresses = {a1, a2}
    NoAddress = NoAddress
    MaxTime = 1
    MaxU64 = 4
    MaxI128 = 2
    ReportIds = {1}
    AlertIds = {1}
    ProposedRoles = {"Verifier"}
    RequestedApprovals = {0}
    RequestedDelays = {0}
    Bounties = {1}
    MinRoleApprovals = 2
    MinRoleDelay = 0
    MinEmergencyApprovals = 3
    MinEmergencyDelay = 1
    MaxProposals = 2
    Signers = {k1}
    NoSigner = NoSigner
    NoSignature = NoSignature
    Amounts = {1}
    LockDurations = {1}
    MaxEscrows = 1
    MaxRefunds = 1
    MaxSignatures = 1
    CriticalReward = 1
    EmergencyReward = 2
    FundAmounts = {2}
    MaxAlerts = 1
    AddressTextLength = 11
    HighBounty = 1
    PointsPerReport = 1
    EarningsPerPoint = 2
    MaxReports = 1
INVARIANT
    ReportsAreAccepted
CHECK_DEADLOCK FALSE
