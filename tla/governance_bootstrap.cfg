\* The floors of the code: no grant is ever executed.
SPECIFICATION GovernanceFairSpec
CONSTANTS
    Addresses = {a1, a2}
    NoAddress = NoAddress
    MaxTime = 3
    MaxU64 = 3
    MaxI128 = 2
    ReportIds = {1}
    AlertIds = {1}
    Bounties = {1}
    ProposedRoles = {"SuperAdmin", "Verifier"}
    RequestedApprovals = {0, 2}
    RequestedDelays = {0, 3}
    MinRoleApprovals = 2
    MinRoleDelay = 2
    MinEmergencyApprovals = 3
    MinEmergencyDelay = 1
    MaxProposals = 2
PROPERTY
    GrantsAreExecuted
CHECK_DEADLOCK FALSE
