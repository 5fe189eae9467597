--------------------------- MODULE ScannerContract ---------------------------
(***************************************************************************)
(* The scanner contract as a whole (contracts/scanner/src/lib.rs):         *)
(* emergency alerts and the two funding pools, composed with its roles and *)
(* proposals (Governance) and its escrows (EscrowLedger).  Each action is  *)
(* one entry point; one that touches several parts conjoins the actions of *)
(* those parts, because it is one transaction.                             *)
(*                                                                         *)
(* The calls that update a reputation - report and verify a vulnerability, *)
(* execute a high bounty, confirm an alert - always trap, so they take no  *)
(* step here; VulnerabilityReports models them and why.                    *)
(***************************************************************************)
EXTENDS Governance, EscrowLedger

CONSTANTS
    CriticalReward, EmergencyReward,   \* 5_000_000 and 10_000_000
    FundAmounts,          \* the amounts funders pass
    MaxAlerts             \* BOUND on the alerts made

(* Proposals name alerts that the counter reaches. *)
ASSUME ScannerAssumption ==
    /\ CriticalReward \in 1..MaxI128 /\ EmergencyReward \in 1..MaxI128
    /\ FundAmounts \subseteq Int
    /\ MaxAlerts \in Nat /\ AlertIds = 1..MaxAlerts

VARIABLES
    bountyPool, emergencyPool, \* BOUNTY_POOL, EMERGENCY_POOL
    alerts, alertCounter       \* EMERGENCY_ALERTS, ALERT_COUNTER

RewardFor == [critical |-> CriticalReward, emergency |-> EmergencyReward]

Severities == DOMAIN RewardFor

alertVars == <<alerts, alertCounter>>
poolVars == <<bountyPool, emergencyPool>>
ownVars == <<alertVars, poolVars>>
vars == <<hostVars, govVars, escrowVars, ownVars>>
-----------------------------------------------------------------------------
Init ==
    /\ HostInit
    /\ GovInit
    /\ EscrowInit
    /\ bountyPool = 0
    /\ emergencyPool = 0
    /\ alerts = [a \in {} |-> {}]
    /\ alertCounter = 0

InitializeAndRenumber(a) ==
    /\ ClaimAdmin(a)
    /\ SeedRoles(a)
    /\ ForgetEscrowsAndIds(a)
    /\ alerts' = [x \in {} |-> {}]
    /\ bountyPool' = 0
    /\ emergencyPool' = 0
    /\ UNCHANGED alertCounter

(* initialize, the whole of it: it also forgets the alerts raised and      *)
(* empties the pools funded before it, but it does not reset the counters. *)
Initialize(a) ==
    /\ ClaimAdmin(a)
    /\ SeedRoles(a)
    /\ ForgetEscrows(a)
    /\ alerts' = [x \in {} |-> {}]
    /\ bountyPool' = 0
    /\ emergencyPool' = 0
    /\ UNCHANGED alertCounter

FundBountyPoolUnchecked(funder, amount) ==
    /\ amount > 0
    /\ bountyPool' = bountyPool + amount
    /\ UNCHANGED <<hostVars, govVars, escrowVars, alertVars, emergencyPool>>

FundBountyPool(funder, amount) ==
    /\ amount > 0
    /\ FitsI128(bountyPool + amount)
    /\ bountyPool' = bountyPool + amount
    /\ UNCHANGED <<hostVars, govVars, escrowVars, alertVars, emergencyPool>>

FundEmergencyPool(funder, amount) ==
    /\ amount > 0
    /\ HasPermission(funder, "ManageTreasury")
    /\ FitsI128(emergencyPool + amount)
    /\ emergencyPool' = emergencyPool + amount
    /\ UNCHANGED <<hostVars, govVars, escrowVars, alertVars, bountyPool>>

ReportEmergencyVulnerability(reporter, severity) ==
    /\ alertCounter < MaxAlerts
    /\ alertCounter' = alertCounter + 1
    /\ alerts' = Put(alerts, alertCounter + 1,
           [ reporter |-> reporter, status |-> "pending",
             reward |-> RewardFor[severity] ])
    /\ UNCHANGED <<hostVars, govVars, escrowVars, poolVars>>

DismissEmergencyUnchecked(executor, p) ==
    LET id == proposals[p].call.alert
    IN  /\ HasPermission(executor, "VerifyEmergency")
        /\ proposals[p].call.target = "verify_emergency_vulnerability"
        /\ ~proposals[p].call.verified
        /\ id \in DOMAIN alerts
        /\ proposals' = [proposals EXCEPT ![p].executed = TRUE]
        /\ alerts' = [alerts EXCEPT ![id].status = "false_positive"]
        /\ UNCHANGED <<hostVars, roles, proposalCounter, escrowVars,
                       alertCounter, poolVars>>

DismissWhateverDecided(executor, p) ==
    LET id == proposals[p].call.alert
    IN  /\ ExecuteProposal(executor, p, "verify_emergency_vulnerability")
        /\ id \in DOMAIN alerts
        /\ alerts' = [alerts EXCEPT ![id].status = "false_positive"]
        /\ UNCHANGED <<hostVars, roles, proposalCounter, escrowVars,
                       alertCounter, poolVars>>

(* The proposal says that the alert is no emergency: its status changes,   *)
(* whatever it was.                                                        *)
DismissEmergency(executor, p) ==
    LET id == proposals[p].call.alert
    IN  /\ ExecuteDismissal(executor, p)
        /\ id \in DOMAIN alerts
        /\ alerts' = [alerts EXCEPT ![id].status = "false_positive"]
        /\ UNCHANGED <<escrowVars, alertCounter, poolVars>>

MarkByAnyone(caller, id) ==
    /\ MarkConditionsMet(id)
    /\ UNCHANGED <<govVars, ownVars>>

MarkEscrowConditionsMet(caller, id) ==
    /\ HasPermission(caller, "ManageEscrow")
    /\ MarkConditionsMet(id)
    /\ UNCHANGED <<govVars, ownVars>>
-----------------------------------------------------------------------------
AlertStep ==
    \E u \in Addresses, severity \in Severities :
        ReportEmergencyVulnerability(u, severity)

FundStep ==
    \E u \in Addresses, amount \in FundAmounts :
        FundBountyPool(u, amount) \/ FundEmergencyPool(u, amount)

ProposalStep ==
    /\ ProposeStep \/ ApproveStep
    /\ UNCHANGED <<escrowVars, ownVars>>

DecideStep ==
    \E u \in Addresses, p \in DOMAIN proposals :
        \/ DismissEmergency(u, p)
        \/ ExecuteRoleGrant(u, p) /\ UNCHANGED <<escrowVars, ownVars>>

EscrowStep ==
    \/ CreateStep /\ UNCHANGED <<govVars, ownVars>>
    \/ SettleStep /\ UNCHANGED <<govVars, ownVars>>
    \/ \E id \in DOMAIN escrows :
           \/ \E u \in Addresses : MarkEscrowConditionsMet(u, id)
           \/ \E s \in Signers : Sign(s, id) /\ UNCHANGED <<govVars, ownVars>>

Next ==
    \/ AdvanceClock /\ UNCHANGED <<govVars, escrowVars, ownVars>>
    \/ \E a \in Addresses : Initialize(a)
    \/ AlertStep
    \/ FundStep
    \/ ProposalStep
    \/ DecideStep
    \/ EscrowStep

Spec == Init /\ [][Next]_vars
-----------------------------------------------------------------------------
Alerts ==
    [ reporter : Addresses, status : {"pending", "false_positive"},
      reward : {CriticalReward, EmergencyReward} ]

AlertTypeOK ==
    /\ alertCounter \in 0..MaxAlerts
    /\ DOMAIN alerts \subseteq 1..alertCounter
    /\ alerts \in [DOMAIN alerts -> Alerts]

TypeOK ==
    /\ GovernanceTypeOK
    /\ LedgerTypeOK
    /\ AlertTypeOK
    /\ bountyPool \in 0..MaxI128
    /\ emergencyPool \in 0..MaxI128

(* The composed contract takes only steps of its parts: a decision about   *)
(* an alert is executed like any other proposal, an escrow is settled the  *)
(* same whoever may mark it, and no call uses one part past the other's    *)
(* checks.                                                                 *)
ImplementsGovernance == GovernanceSpec
ImplementsEscrowLedger == LedgerSpec

(* The status of an alert follows the decisions about it: it is a false    *)
(* positive exactly when an executed proposal about this very alert says   *)
(* so, which enough addresses approved and which waited its delay          *)
(* (approve_ and execute_emergency_verification, in whatever order, of     *)
(* several proposals about one alert).                                     *)
Dismisses(p, a) ==
    /\ proposals[p].executed
    /\ proposals[p].call =
           [ target |-> "verify_emergency_vulnerability", alert |-> a,
             verified |-> FALSE ]
    /\ Cardinality(proposals[p].approvals) >= MinEmergencyApprovals
    /\ now >= proposals[p].createdAt + MinEmergencyDelay

AlertsAreDecidedByProposals ==
    \A a \in DOMAIN alerts :
        alerts[a].status = "false_positive" <=>
            \E p \in DOMAIN proposals : Dismisses(p, a)

(* Conditions are marked met on the word of an escrow manager: as long as  *)
(* nobody holds ManageEscrow - before initialize - no escrow has them met. *)
ConditionsNeedAManager ==
    \A id \in DOMAIN escrows :
        escrows[id].conditionsMet =>
            \E u \in Addresses : HasPermission(u, "ManageEscrow")
=============================================================================
