----------------------------- MODULE Governance -----------------------------
(***************************************************************************)
(* Roles and multi-signature proposals of the scanner contract.            *)
(*                                                                         *)
(* A proposal carries a call: grant a role, verify a report with a bounty, *)
(* or decide an emergency alert.  Holders of a permission approve it, and  *)
(* once it has enough approvals and its delay has passed a holder executes *)
(* it.  Two kinds of proposal are ever executed: a role grant, and the     *)
(* decision that an alert is a false positive, whose effect on the alert   *)
(* is in ScannerContract.  To verify a report or to confirm an alert       *)
(* updates a reputation, which always traps (VulnerabilityReports): such a *)
(* proposal is made and approved but never executed.                       *)
(***************************************************************************)
EXTENDS ContractHost, FiniteSets

CONSTANTS
    ReportIds, AlertIds, Bounties,      \* arguments of proposed calls
    ProposedRoles,                      \* roles that are proposed
    RequestedApprovals, RequestedDelays,\* what a proposer asks for
    MinRoleApprovals, MinRoleDelay,             \* 2 and 86400
    MinEmergencyApprovals, MinEmergencyDelay,   \* 3 and 3600
    MaxProposals                        \* BOUND on the proposals made

ASSUME GovernanceAssumption ==
    /\ Bounties \subseteq Int
    /\ RequestedApprovals \subseteq 0..MaxU64
    /\ RequestedDelays \subseteq 0..MaxU64
    /\ MinRoleApprovals \in Nat /\ MinRoleDelay \in Nat
    /\ MinEmergencyApprovals \in Nat /\ MinEmergencyDelay \in Nat
    /\ MaxProposals \in Nat

VARIABLES
    roles,            \* ADMIN_ROLES: the roles of an address
    proposals,        \* MULTI_SIG_PROPOSALS
    proposalCounter   \* MULTI_SIG_COUNTER

govVars == <<roles, proposals, proposalCounter>>
governanceVars == <<hostVars, govVars>>
-----------------------------------------------------------------------------
RolePermissions ==
    [ SuperAdmin      |-> {"VerifyVulnerability", "VerifyEmergency",
                           "ManageEscrow", "ManageTreasury", "ManageRoles",
                           "EmergencyActions"},
      Verifier        |-> {"VerifyVulnerability", "VerifyEmergency"},
      EscrowManager   |-> {"ManageEscrow"},
      TreasuryManager |-> {"ManageTreasury"} ]

Roles == DOMAIN RolePermissions

ASSUME RolesAssumption == ProposedRoles \subseteq Roles

HasPermission(user, permission) ==
    \E role \in roles[user] : permission \in RolePermissions[role]

(* The permission that proposing, approving and executing a call requires. *)
PermissionFor ==
    [ grant_role                     |-> "ManageRoles",
      verify_vulnerability           |-> "VerifyVulnerability",
      verify_emergency_vulnerability |-> "VerifyEmergency" ]

Targets == DOMAIN PermissionFor

RoleGrants == [target : {"grant_role"}, user : Addresses, role : Roles]
BountyVerifications ==
    [target : {"verify_vulnerability"}, report : ReportIds, bounty : Bounties]
EmergencyVerifications ==
    [target : {"verify_emergency_vulnerability"},
     alert : AlertIds, verified : BOOLEAN]

Calls == RoleGrants \cup BountyVerifications \cup EmergencyVerifications

Proposals ==
    [ proposer : Addresses, call : Calls, approvals : SUBSET Addresses,
      required : Nat, createdAt : Nat, delay : Nat, executed : BOOLEAN ]

AtLeast(floor, n) == IF n < floor THEN floor ELSE n
-----------------------------------------------------------------------------
GovernanceTypeOK ==
    /\ HostTypeOK
    /\ roles \in [Addresses -> SUBSET Roles]
    /\ proposalCounter \in 0..MaxProposals
    /\ proposals \in [DOMAIN proposals -> Proposals]
    /\ DOMAIN proposals \subseteq 1..proposalCounter

GovInit ==
    /\ roles = [u \in Addresses |-> {}]
    /\ proposals = [p \in {} |-> {}]
    /\ proposalCounter = 0

GovernanceInit == HostInit /\ GovInit

(* The writes of `initialize` to the roles and the proposals. *)
SeedRoles(a) ==
    /\ roles' = [u \in Addresses |-> IF u = a THEN {"SuperAdmin"} ELSE {}]
    /\ proposals' = [p \in {} |-> {}]
    /\ UNCHANGED proposalCounter

GovernanceInitialize(a) == ClaimAdmin(a) /\ SeedRoles(a)

CreateProposalUncounted(proposer, call, required, delay) ==
    /\ proposalCounter < MaxProposals
    /\ proposals' = Put(proposals, proposalCounter + 1,
           [ proposer |-> proposer, call |-> call, approvals |-> {},
             required |-> required, createdAt |-> now, delay |-> delay,
             executed |-> FALSE ])
    /\ UNCHANGED <<hostVars, roles, proposalCounter>>

CreateProposal(proposer, call, required, delay) ==
    /\ proposalCounter < MaxProposals
    /\ proposalCounter' = proposalCounter + 1
    /\ proposals' = Put(proposals, proposalCounter + 1,
           [ proposer |-> proposer, call |-> call, approvals |-> {},
             required |-> required, createdAt |-> now, delay |-> delay,
             executed |-> FALSE ])
    /\ UNCHANGED <<hostVars, roles>>

ProposeHighBountyVerification(proposer, report, bounty, required, delay) ==
    /\ HasPermission(proposer, "VerifyVulnerability")
    /\ CreateProposal(proposer,
           [target |-> "verify_vulnerability", report |-> report,
            bounty |-> bounty],
           required, delay)

ProposeEmergencyVerification(proposer, alert, verified, required, delay) ==
    /\ HasPermission(proposer, "VerifyEmergency")
    /\ CreateProposal(proposer,
           [target |-> "verify_emergency_vulnerability", alert |-> alert,
            verified |-> verified],
           AtLeast(MinEmergencyApprovals, required),
           AtLeast(MinEmergencyDelay, delay))

ProposeRoleGrantUnfloored(proposer, user, role, required, delay) ==
    /\ HasPermission(proposer, "ManageRoles")
    /\ CreateProposal(proposer,
           [target |-> "grant_role", user |-> user, role |-> role],
           required, AtLeast(MinRoleDelay, delay))

ProposeRoleGrant(proposer, user, role, required, delay) ==
    /\ HasPermission(proposer, "ManageRoles")
    /\ CreateProposal(proposer,
           [target |-> "grant_role", user |-> user, role |-> role],
           AtLeast(MinRoleApprovals, required), AtLeast(MinRoleDelay, delay))

ApproveAfterExecution(approver, p, entry) ==
    /\ HasPermission(approver, PermissionFor[entry])
    /\ p \in DOMAIN proposals
    /\ approver \notin proposals[p].approvals
    /\ proposals' = [proposals EXCEPT ![p].approvals = @ \cup {approver}]
    /\ UNCHANGED <<hostVars, roles, proposalCounter>>

ApproveUnchecked(approver, p, entry) ==
    /\ p \in DOMAIN proposals
    /\ ~proposals[p].executed
    /\ approver \notin proposals[p].approvals
    /\ proposals' = [proposals EXCEPT ![p].approvals = @ \cup {approver}]
    /\ UNCHANGED <<hostVars, roles, proposalCounter>>

(* The three approve_* entry points: `entry` is the kind of call the entry *)
(* point is named for.  It decides the permission asked for, and nothing   *)
(* compares it with the kind of the proposal that is approved.             *)
Approve(approver, p, entry) ==
    /\ HasPermission(approver, PermissionFor[entry])
    /\ p \in DOMAIN proposals
    /\ ~proposals[p].executed
    /\ approver \notin proposals[p].approvals
    /\ proposals' = [proposals EXCEPT ![p].approvals = @ \cup {approver}]
    /\ UNCHANGED <<hostVars, roles, proposalCounter>>

CanExecuteEarly(p) ==
    LET proposal == proposals[p]
    IN  /\ ~proposal.executed
        /\ Cardinality(proposal.approvals) >= proposal.required

CanExecuteStrict(p) ==
    LET proposal == proposals[p]
        due == proposal.createdAt + proposal.delay
    IN  /\ ~proposal.executed
        /\ due <= MaxU64
        /\ now >= due
        /\ Cardinality(proposal.approvals) > proposal.required

(* created_at + execution_delay is a plain u64 sum, and the build checks    *)
(* overflow: the call then traps, now and at any later time.               *)
CanExecute(p) ==
    LET proposal == proposals[p]
        due == proposal.createdAt + proposal.delay
    IN  /\ ~proposal.executed
        /\ due <= MaxU64
        /\ now >= due
        /\ Cardinality(proposal.approvals) >= proposal.required

(* What the three execute_* entry points share.  Each parses the stored    *)
(* parameters as its own kind of call, and the text of one kind (a number  *)
(* and a number, a number and a boolean, an address and a role) never      *)
(* parses as another: executing a proposal of another kind fails.          *)
ExecuteProposal(executor, p, target) ==
    /\ HasPermission(executor, PermissionFor[target])
    /\ p \in DOMAIN proposals
    /\ CanExecute(p)
    /\ proposals[p].call.target = target
    /\ proposals' = [proposals EXCEPT ![p].executed = TRUE]

ExecuteRoleGrantToExecutor(executor, p) ==
    /\ ExecuteProposal(executor, p, "grant_role")
    /\ roles' = [roles EXCEPT ![executor] = @ \cup {proposals[p].call.role}]
    /\ UNCHANGED <<hostVars, proposalCounter>>

ExecuteRoleGrant(executor, p) ==
    /\ ExecuteProposal(executor, p, "grant_role")
    /\ roles' = [roles EXCEPT ![proposals[p].call.user] =
                     @ \cup {proposals[p].call.role}]
    /\ UNCHANGED <<hostVars, proposalCounter>>

(* execute_emergency_verification of a proposal that says "not verified". *)
ExecuteDismissal(executor, p) ==
    /\ ExecuteProposal(executor, p, "verify_emergency_vulnerability")
    /\ ~proposals[p].call.verified
    /\ UNCHANGED <<hostVars, roles, proposalCounter>>
-----------------------------------------------------------------------------
ProposeStep ==
    \E u \in Addresses, required \in RequestedApprovals,
       delay \in RequestedDelays :
        \/ \E r \in ReportIds, b \in Bounties :
               ProposeHighBountyVerification(u, r, b, required, delay)
        \/ \E a \in AlertIds, v \in BOOLEAN :
               ProposeEmergencyVerification(u, a, v, required, delay)
        \/ \E w \in Addresses, role \in ProposedRoles :
               ProposeRoleGrant(u, w, role, required, delay)

ApproveStep ==
    \E u \in Addresses, p \in DOMAIN proposals, entry \in Targets :
        Approve(u, p, entry)

ExecuteStep ==
    \E u \in Addresses, p \in DOMAIN proposals :
        ExecuteRoleGrant(u, p) \/ ExecuteDismissal(u, p)

GovernanceNext ==
    \/ AdvanceClock /\ UNCHANGED govVars
    \/ \E a \in Addresses : GovernanceInitialize(a)
    \/ ProposeStep
    \/ ApproveStep
    \/ ExecuteStep

GovernanceSpec == GovernanceInit /\ [][GovernanceNext]_governanceVars
-----------------------------------------------------------------------------
(* Each proposal asks for at least the approvals and the delay its kind    *)
(* demands (SECURITY_IMPROVEMENTS.md, "Time Locks" and "Approval           *)
(* Requirements"), whatever the proposer requested, and a proposal was     *)
(* executed only after as many different addresses approved it and after   *)
(* its delay (can_execute_proposal and the three execute_* calls).         *)
ApprovalFloor ==
    [ grant_role                     |-> MinRoleApprovals,
      verify_vulnerability           |-> 0,
      verify_emergency_vulnerability |-> MinEmergencyApprovals ]

DelayFloor ==
    [ grant_role                     |-> MinRoleDelay,
      verify_vulnerability           |-> 0,
      verify_emergency_vulnerability |-> MinEmergencyDelay ]

ExecutedWithQuorum ==
    \A p \in DOMAIN proposals :
        proposals[p].executed =>
            /\ Cardinality(proposals[p].approvals) >= proposals[p].required
            /\ now >= proposals[p].createdAt + proposals[p].delay
            /\ proposals[p].required >= ApprovalFloor[proposals[p].call.target]
            /\ proposals[p].delay >= DelayFloor[proposals[p].call.target]

(* No step loses a proposal, changes what it asks for or takes an approval *)
(* back, and nothing of it changes once it is executed: not by a late      *)
(* approval, not by a second execution, not by a second initialize.        *)
ProposalsAreKept ==
    \A p \in DOMAIN proposals :
        /\ p \in DOMAIN proposals'
        /\ proposals'[p] =
               [proposals[p] EXCEPT !.approvals = proposals'[p].approvals,
                                    !.executed = proposals'[p].executed]
        /\ proposals[p].approvals \subseteq proposals'[p].approvals
        /\ proposals[p].executed => proposals'[p] = proposals[p]

DecisionsAreFinal == [][ProposalsAreKept]_governanceVars

(* Every role an address holds was seeded by initialize or granted by an   *)
(* executed proposal for exactly that address and role                     *)
(* (execute_role_grant rebuilds both from the stored parameters).          *)
ExecutedGrant(user, role) ==
    \E p \in DOMAIN proposals :
        /\ proposals[p].executed
        /\ proposals[p].call =
               [target |-> "grant_role", user |-> user, role |-> role]

RolesComeFromGrants ==
    \A user \in Addresses : \A role \in roles[user] :
        \/ user = admin /\ role = "SuperAdmin"
        \/ ExecutedGrant(user, role)

(* Whoever approved a proposal holds a role: approvals of outsiders never  *)
(* count towards a quorum.  Which role is another matter: the three        *)
(* approve_* entry points each ask for their own permission and do not     *)
(* look at the kind of the proposal, so a Verifier's approval of a role    *)
(* grant counts.                                                           *)
ApproversHoldRoles ==
    \A p \in DOMAIN proposals :
        \A u \in proposals[p].approvals : roles[u] # {}

(* With the two approvals a role grant needs in the code, the address that *)
(* initialize made SuperAdmin stays the only one with a role: nobody else  *)
(* may approve, so no grant ever reaches its quorum.                       *)
OnlyAdminHoldsRoles ==
    \A user \in Addresses : roles[user] # {} => user = admin
-----------------------------------------------------------------------------
(* Fairness for liveness: time passes, holders of a role approve what they *)
(* may, and somebody executes a grant that can be executed.  The contract  *)
(* schedules nothing; this says that its users do their part.              *)
GovernanceFairness ==
    /\ WF_governanceVars(AdvanceClock /\ UNCHANGED govVars)
    /\ \A p \in 1..MaxProposals :
           /\ \A u \in Addresses :
                  WF_governanceVars(
                      p \in DOMAIN proposals /\ Approve(u, p, "grant_role"))
           /\ WF_governanceVars(\E u \in Addresses :
                  p \in DOMAIN proposals /\ ExecuteRoleGrant(u, p))

GovernanceFairSpec == GovernanceSpec /\ GovernanceFairness

PendingGrant(p) ==
    /\ p \in DOMAIN proposals
    /\ proposals[p].call.target = "grant_role"
    /\ proposals[p].createdAt + proposals[p].delay <= MaxTime

GrantExecuted(p) == p \in DOMAIN proposals /\ proposals[p].executed

(* A role grant that asks for no more approvals than there are role        *)
(* managers is executed in the end: no other proposal, approval through    *)
(* another entry point or earlier execution stands in its way.             *)
AttainableGrantsAreExecuted ==
    \A p \in 1..MaxProposals :
        ( /\ PendingGrant(p)
          /\ proposals[p].required <=
                 Cardinality({u \in Addresses :
                                  HasPermission(u, "ManageRoles")}) )
        ~> GrantExecuted(p)

(* What SECURITY_IMPROVEMENTS.md:133 and :156 promise: role grants go      *)
(* through the multi-signature workflow and are executed.                  *)
GrantsAreExecuted ==
    \A p \in 1..MaxProposals : PendingGrant(p) ~> GrantExecuted(p)
=============================================================================
