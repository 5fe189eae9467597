\* Floors of one approval, so that grants and decisions happen.
SPECIFICATION GovernanceFairSpec
CONSTANTS
    Addresses = {a1, a2}
    NoAddress = NoAddress
    MaxTime = 3
    MaxU64 = 3
    MaxI128 = 2
    ReportIds = {1}
    AlertIds = {1}
    Bounties = {1}
    ProposedRoles = {"SuperAdmin", "Verifier"}
    RequestedApprovals = {0, 2}
    RequestedDelays = {0, 3}
    MinRoleApprovals = 1
    MinRoleDelay = 2
    MinEmergencyApprovals = 1
    MinEmergencyDelay = 1
    MaxProposals = 2
INVARIANTS
    GovernanceTypeOK
    ExecutedWithQuorum
    RolesComeFromGrants
    ApproversHoldRoles
PROPERTIES
    DecisionsAreFinal
    AttainableGrantsAreExecuted
CHECK_DEADLOCK FALSE
