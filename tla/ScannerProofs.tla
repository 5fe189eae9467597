---------------------------- MODULE ScannerProofs ----------------------------
(***************************************************************************)
(* Proofs about ScannerContract, for any accounts, amounts, rewards,       *)
(* limits, floors and bounds, and about the calls of VulnerabilityReports  *)
(* that trap.                                                              *)
(***************************************************************************)
EXTENDS VulnerabilityReports, GovernanceProofs, PromiseProofs

(* The calls of the contract that leave the roles and proposals alone.     *)
LEMMA NextIsGovernanceStep ==
    ASSUME [Next]_vars
    PROVE  [GovernanceNext]_governanceVars
<1>1. CASE AdvanceClock /\ UNCHANGED <<govVars, escrowVars, ownVars>>
  BY <1>1 DEF GovernanceNext
<1>2. ASSUME NEW a \in Addresses, Initialize(a) PROVE GovernanceNext
  BY <1>2 DEF Initialize, GovernanceNext, GovernanceInitialize
<1>3. CASE AlertStep \/ FundStep
  BY <1>3 DEF AlertStep, FundStep, ReportEmergencyVulnerability,
              FundBountyPool, FundEmergencyPool, governanceVars
<1>4. CASE ProposalStep
  BY <1>4 DEF ProposalStep, GovernanceNext
<1>5. CASE DecideStep
  BY <1>5 DEF DecideStep, DismissEmergency, GovernanceNext, ExecuteStep
<1>6. CASE EscrowStep
  BY <1>6 DEF EscrowStep, CreateStep, CreateEscrow, SettleStep, RefundEscrow,
              ReleaseEscrow, PayOut, Sign, MarkEscrowConditionsMet,
              MarkConditionsMet, governanceVars
<1>7. CASE UNCHANGED vars
  BY <1>7 DEF vars, governanceVars
<1> QED BY <1>1, <1>2, <1>3, <1>4, <1>5, <1>6, <1>7 DEF Next

(* Every call of the contract is a step of the ledger.                     *)
LEMMA NextIsLedgerStep ==
    ASSUME [Next]_vars
    PROVE  [LedgerNext]_ledgerVars
<1>1. CASE AdvanceClock /\ UNCHANGED <<govVars, escrowVars, ownVars>>
  BY <1>1 DEF LedgerNext
<1>2. ASSUME NEW a \in Addresses, Initialize(a) PROVE LedgerNext
  BY <1>2 DEF Initialize, LedgerNext, LedgerInitialize
<1>3. CASE AlertStep \/ FundStep
  BY <1>3 DEF AlertStep, FundStep, ReportEmergencyVulnerability,
              FundBountyPool, FundEmergencyPool, ledgerVars
<1>4. CASE ProposalStep
  <2>1. UNCHANGED hostVars
    BY <1>4 DEF ProposalStep, ProposeStep, ApproveStep, Approve,
                ProposeHighBountyVerification, ProposeEmergencyVerification,
                ProposeRoleGrant, CreateProposal
  <2> QED BY <1>4, <2>1 DEF ProposalStep, ledgerVars
<1>5. CASE DecideStep
  BY <1>5 DEF DecideStep, DismissEmergency, ExecuteDismissal,
              ExecuteRoleGrant, ledgerVars
<1>6. CASE EscrowStep
  BY <1>6 DEF EscrowStep, MarkEscrowConditionsMet, LedgerNext
<1>7. CASE UNCHANGED vars
  BY <1>7 DEF vars, ledgerVars
<1> QED BY <1>1, <1>2, <1>3, <1>4, <1>5, <1>6, <1>7 DEF Next
-----------------------------------------------------------------------------
(* What the contract keeps of alerts and pools.                            *)
OwnTypeOK ==
    /\ AlertTypeOK
    /\ bountyPool \in 0..MaxI128
    /\ emergencyPool \in 0..MaxI128

(* A new alert takes the next id.                                          *)
LEMMA AlertKeepsTypes ==
    ASSUME OwnTypeOK, NEW u \in Addresses, NEW severity \in Severities,
           ReportEmergencyVulnerability(u, severity)
    PROVE  OwnTypeOK'
<1> DEFINE id == alertCounter + 1
           new == [ reporter |-> u, status |-> "pending",
                    reward |-> RewardFor[severity] ]
<1>1. /\ alertCounter < MaxAlerts /\ alertCounter' = id
      /\ alerts' = Put(alerts, id, new)
      /\ UNCHANGED <<bountyPool, emergencyPool>>
  BY DEF ReportEmergencyVulnerability, poolVars
<1>2. new \in Alerts
  BY ScannerAssumption DEF Alerts, RewardFor, Severities
<1> HIDE DEF new
<1>3. /\ DOMAIN alerts' = DOMAIN alerts \cup {id}
      /\ alerts' \in [DOMAIN alerts' -> Alerts]
  <2>1. alerts \in [DOMAIN alerts -> Alerts]
    BY DEF OwnTypeOK, AlertTypeOK
  <2> HIDE DEF id
  <2> QED BY <1>1, <1>2, <2>1 DEF Put
<1>4. AlertTypeOK'
  BY <1>1, <1>3, ScannerAssumption DEF OwnTypeOK, AlertTypeOK
<1> QED BY <1>1, <1>4 DEF OwnTypeOK

(* A dismissal changes the status of one alert.                            *)
LEMMA DismissalKeepsTypes ==
    ASSUME OwnTypeOK, NEW u \in Addresses, NEW p \in DOMAIN proposals,
           DismissEmergency(u, p)
    PROVE  OwnTypeOK'
<1> DEFINE id == proposals[p].call.alert
           new == [alerts[id] EXCEPT !.status = "false_positive"]
<1>1. /\ id \in DOMAIN alerts
      /\ alerts' = [alerts EXCEPT ![id] = new]
      /\ UNCHANGED <<alertCounter, bountyPool, emergencyPool>>
  BY DEF DismissEmergency, poolVars
<1>2. alerts \in [DOMAIN alerts -> Alerts] /\ alerts[id] \in Alerts
  BY <1>1 DEF OwnTypeOK, AlertTypeOK
<1>3. new \in Alerts
  BY <1>2 DEF Alerts
<1> HIDE DEF id, new
<1>4. DOMAIN alerts' = DOMAIN alerts /\ alerts' \in [DOMAIN alerts -> Alerts]
  BY <1>1, <1>2, <1>3
<1> QED BY <1>1, <1>4 DEF OwnTypeOK, AlertTypeOK

(* Every step keeps the types of what the contract keeps beside its roles  *)
(* and escrows.                                                            *)
LEMMA NextKeepsOwnTypes ==
    ASSUME OwnTypeOK, [Next]_vars
    PROVE  OwnTypeOK'
<1>1. CASE UNCHANGED ownVars
  BY <1>1 DEF ownVars, alertVars, poolVars, OwnTypeOK, AlertTypeOK
<1>2. ASSUME NEW a \in Addresses, Initialize(a) PROVE OwnTypeOK'
  <2>1. /\ DOMAIN alerts' = {}
        /\ alerts' \in [DOMAIN alerts' -> Alerts]
        /\ bountyPool' = 0 /\ emergencyPool' = 0
        /\ UNCHANGED alertCounter
    BY <1>2 DEF Initialize
  <2> QED BY <2>1, HostAssumption DEF OwnTypeOK, AlertTypeOK
<1>3. CASE AlertStep
  BY <1>3, AlertKeepsTypes DEF AlertStep
<1>4. CASE FundStep
  <2>1. PICK u \in Addresses, amount \in FundAmounts :
            FundBountyPool(u, amount) \/ FundEmergencyPool(u, amount)
    BY <1>4 DEF FundStep
  <2>2. amount \in Nat
    BY <2>1, ScannerAssumption DEF FundBountyPool, FundEmergencyPool
  <2>3. bountyPool' \in 0..MaxI128 /\ emergencyPool' \in 0..MaxI128
    BY <2>1, <2>2, HostAssumption
       DEF FundBountyPool, FundEmergencyPool, FitsI128, OwnTypeOK
  <2> QED
    BY <2>1, <2>3 DEF FundBountyPool, FundEmergencyPool, OwnTypeOK,
                      AlertTypeOK, alertVars
<1>5. CASE DecideStep
  BY <1>1, <1>5, DismissalKeepsTypes DEF DecideStep
<1>6. CASE ProposalStep \/ EscrowStep
  BY <1>1, <1>6 DEF ProposalStep, EscrowStep, MarkEscrowConditionsMet
<1>7. CASE UNCHANGED vars
  BY <1>1, <1>7 DEF vars
<1> QED BY <1>1, <1>2, <1>3, <1>4, <1>5, <1>6, <1>7 DEF Next

(* The contract before its first call.                                     *)
LEMMA InitParts ==
    ASSUME Init
    PROVE  GovernanceInit /\ LedgerInit /\ OwnTypeOK
<1>1. /\ DOMAIN alerts = {} /\ alerts \in [DOMAIN alerts -> Alerts]
      /\ bountyPool = 0 /\ emergencyPool = 0 /\ alertCounter = 0
  BY DEF Init
<1>2. OwnTypeOK
  BY <1>1, HostAssumption, ScannerAssumption DEF OwnTypeOK, AlertTypeOK
<1> QED BY <1>2 DEF Init, GovernanceInit, LedgerInit

(* The composed contract takes only steps of Governance.                   *)
THEOREM ContractImplementsGovernance == Spec => ImplementsGovernance
<1>1. Init => GovernanceInit
  BY InitParts
<1>2. [Next]_vars => [GovernanceNext]_governanceVars
  BY NextIsGovernanceStep
<1> QED BY <1>1, <1>2, PTL DEF Spec, ImplementsGovernance, GovernanceSpec

(* The composed contract takes only steps of EscrowLedger.                 *)
THEOREM ContractImplementsLedger == Spec => ImplementsEscrowLedger
<1>1. Init => LedgerInit
  BY InitParts
<1>2. [Next]_vars => [LedgerNext]_ledgerVars
  BY NextIsLedgerStep
<1> QED BY <1>1, <1>2, PTL DEF Spec, ImplementsEscrowLedger, LedgerSpec

(* The alerts and pools stay well-formed.                                  *)
LEMMA OwnTypesHold == Spec => []OwnTypeOK
<1>1. Init => OwnTypeOK
  BY InitParts
<1>2. OwnTypeOK /\ [Next]_vars => OwnTypeOK'
  BY NextKeepsOwnTypes
<1> QED BY <1>1, <1>2, PTL DEF Spec

(* Type correctness of the whole contract: the funding pools and the       *)
(* escrow pool fit their integers, for any amounts and limits.             *)
THEOREM ContractTypeCorrect == Spec => []TypeOK
<1>1. GovernanceTypeOK /\ OwnTypeOK /\ LedgerTypeOK => TypeOK
  BY DEF OwnTypeOK, TypeOK
<1> QED BY <1>1, OwnTypesHold, ContractImplementsGovernance,
           GovernanceTypeCorrect, ContractImplementsLedger,
           LedgerTypeCorrect, PTL
        DEF ImplementsGovernance, ImplementsEscrowLedger

(* So the composed contract keeps the promise of its escrows: a late       *)
(* initialize and marks by permission included.                            *)
THEOREM ContractKeepsPromise == Spec => KeepsPromise
BY ContractImplementsLedger, LedgerKeepsPromise, PTL
   DEF ImplementsEscrowLedger

(* What is proved of roles and proposals holds of the whole contract:      *)
(* quorums and delays, where roles come from, who may approve, and that    *)
(* decisions are final.                                                    *)
THEOREM ContractDecides ==
    Spec => /\ [](/\ ExecutedWithQuorum /\ ApproversHoldRoles
                  /\ RolesComeFromGrants)
            /\ DecisionsAreFinal
BY ContractImplementsGovernance, QuorumBeforeExecution, QuorumsOfRoleHolders,
   RolesMatchGrants, ExecutionIsFinal, PTL
   DEF ImplementsGovernance

(* So does what is proved of escrows: due payouts, signatures that bind    *)
(* one escrow, and the exact pool.                                         *)
THEOREM ContractPays ==
    Spec => /\ [](/\ SettledOnlyWhenDue /\ ReleasesAreSigned
                  /\ SignaturesBindOneEscrow)
            /\ PoolTracksTransfers
BY ContractImplementsLedger, PaidOnlyWhenDue, ReleasesCarrySignatures,
   NoSignatureIsReused, PoolIsExact, PTL
   DEF ImplementsEscrowLedger

(* With the approvals the code asks of a role grant, what holds of roles   *)
(* in Governance holds of the composed contract.                           *)
THEOREM ContractAdminStaysAlone ==
    MinRoleApprovals >= 2 => (Spec => []OnlyAdminHoldsRoles)
BY ContractImplementsGovernance, AdminStaysAlone, PTL DEF ImplementsGovernance

-----------------------------------------------------------------------------
(* Whatever a call does, the proposals and who holds a role only grow.     *)
LEMMA ProposalsAndRolesGrow ==
    ASSUME GovInv, [Next]_vars
    PROVE  /\ \A p \in DOMAIN proposals :
                  /\ p \in DOMAIN proposals'
                  /\ proposals'[p].call = proposals[p].call
                  /\ proposals[p].executed => proposals'[p].executed
           /\ RolesGrow
<1>1. GovernanceStep
  BY NextIsGovernanceStep, GovernanceStepFacts DEF GovInv
<1>2. ASSUME NEW p \in DOMAIN proposals
      PROVE  /\ p \in DOMAIN proposals'
             /\ proposals'[p].call = proposals[p].call
             /\ proposals[p].executed => proposals'[p].executed
  <2>1. proposals[p] \in Proposals
    BY DEF GovInv, GovernanceTypeOK
  <2>2. /\ p \in DOMAIN proposals'
        /\ proposals'[p] =
               [proposals[p] EXCEPT !.approvals = proposals'[p].approvals,
                                    !.executed = proposals'[p].executed]
        /\ proposals[p].executed => proposals'[p] = proposals[p]
    BY <1>1 DEF GovernanceStep, ProposalsAreKept
  <2> QED BY <2>1, <2>2 DEF Proposals
<1> QED BY <1>1, <1>2 DEF GovernanceStep

(* While nobody holds ManageEscrow no call marks an escrow: the others     *)
(* write entries whose conditions are not met, or leave the flag alone.    *)
LEMMA NobodyMarks ==
    ASSUME LedgerTypeOK, [Next]_vars,
           \A u \in Addresses : ~HasPermission(u, "ManageEscrow"),
           \A id \in DOMAIN escrows : ~escrows[id].conditionsMet
    PROVE  \A id \in DOMAIN escrows' : ~escrows'[id].conditionsMet
<1> DEFINE Unmarked == \A id \in DOMAIN escrows' : ~escrows'[id].conditionsMet
<1>1. CASE UNCHANGED escrowVars
  BY <1>1 DEF escrowVars
<1>2. ASSUME NEW a \in Addresses, Initialize(a) PROVE Unmarked
  BY <1>2 DEF Initialize, ForgetEscrows
<1>3. CASE AlertStep \/ FundStep \/ ProposalStep
  BY <1>1, <1>3
     DEF AlertStep, FundStep, ProposalStep, ReportEmergencyVulnerability,
         FundBountyPool, FundEmergencyPool
<1>4. CASE DecideStep
  BY <1>1, <1>4 DEF DecideStep, DismissEmergency
<1>5. CASE CreateStep
  <2>1. PICK d \in Addresses, b \in Addresses, amount \in Amounts,
             lock \in LockDurations, s \in Signers \cup {NoSigner} :
            CreateEscrow(d, b, amount, lock, s)
    BY <1>5 DEF CreateStep
  <2> DEFINE e == NewEscrow(escrowCounter + 1, d, b, amount, lock, s)
  <2>2. escrows' = Put(escrows, escrowCounter + 1, e) /\ ~e.conditionsMet
    BY <2>1 DEF CreateEscrow, NewEscrow
  <2> HIDE DEF e
  <2> QED BY <2>2 DEF Put
<1>6. CASE SettleStep
  <2>1. PICK id \in DOMAIN escrows, u \in Addresses :
            \/ RefundEscrow(id, u)
            \/ \E sig \in signed \cup {NoSignature} : ReleaseEscrow(id, u, sig)
    BY <1>6 DEF SettleStep
  <2>2. PICK status, signature :
            escrows' = [escrows EXCEPT ![id] =
                [escrows[id] EXCEPT !.status = status,
                                    !.signature = signature]]
    <3>1. CASE RefundEscrow(id, u)
      <4>1. escrows[id] \in EscrowEntries
        BY DEF LedgerTypeOK
      <4>2. [escrows[id] EXCEPT !.status = "refunded"] =
            [escrows[id] EXCEPT !.status = "refunded",
                                !.signature = escrows[id].signature]
        BY <4>1 DEF EscrowEntries
      <4> QED BY <3>1, <4>2 DEF RefundEscrow
    <3>2. ASSUME NEW sig \in signed \cup {NoSignature},
                 ReleaseEscrow(id, u, sig)
          PROVE  escrows' = [escrows EXCEPT ![id] =
                     [escrows[id] EXCEPT
                         !.status = "released",
                         !.signature = IF escrows[id].signer = NoSigner
                                       THEN NoSignature ELSE sig]]
      BY <3>2 DEF ReleaseEscrow
    <3> QED BY <2>1, <3>1, <3>2
  <2> DEFINE f == [escrows[id] EXCEPT !.status = status,
                                      !.signature = signature]
  <2>3. escrows[id] \in EscrowEntries
    BY DEF LedgerTypeOK
  <2>4. f.conditionsMet = escrows[id].conditionsMet
    BY <2>3 DEF EscrowEntries
  <2>5. escrows' = [escrows EXCEPT ![id] = f]
    BY <2>2
  <2> HIDE DEF f
  <2> QED BY <2>4, <2>5 DEF LedgerTypeOK
<1>7. CASE EscrowStep
  BY <1>5, <1>6, <1>7 DEF EscrowStep, Sign, MarkEscrowConditionsMet
<1>8. CASE \/ AdvanceClock /\ UNCHANGED <<govVars, escrowVars, ownVars>>
           \/ UNCHANGED vars
  BY <1>1, <1>8 DEF vars
<1> QED BY <1>2, <1>3, <1>4, <1>7, <1>8 DEF Next

(* Conditions are met only where somebody holds ManageEscrow.              *)
LEMMA ConditionsStep ==
    ASSUME GovInv, LedgerTypeOK, ConditionsNeedAManager, [Next]_vars
    PROVE  ConditionsNeedAManager'
<1>1. CASE \A u \in Addresses : ~HasPermission(u, "ManageEscrow")
  <2>1. \A id \in DOMAIN escrows : ~escrows[id].conditionsMet
    BY <1>1 DEF ConditionsNeedAManager
  <2> QED BY <1>1, <2>1, NobodyMarks DEF ConditionsNeedAManager
<1>2. ASSUME NEW u \in Addresses, HasPermission(u, "ManageEscrow")
      PROVE  ConditionsNeedAManager'
  <2>1. roles[u] \subseteq roles'[u]
    BY ProposalsAndRolesGrow DEF RolesGrow
  <2>2. HasPermission(u, "ManageEscrow")'
    BY <1>2, <2>1 DEF HasPermission
  <2> QED BY <2>2 DEF ConditionsNeedAManager
<1> QED BY <1>1, <1>2

(* An escrow's conditions are met on the word of an escrow manager only,   *)
(* before initialize and after it.                                         *)
THEOREM ConditionsAreVouchedFor == Spec => []ConditionsNeedAManager
<1>1. Init => ConditionsNeedAManager
  BY DEF Init, EscrowInit, ConditionsNeedAManager
<1>2. /\ GovInv /\ LedgerTypeOK /\ ConditionsNeedAManager /\ [Next]_vars
      => ConditionsNeedAManager'
  BY ConditionsStep
<1> QED BY <1>1, <1>2, ContractImplementsGovernance, GovInvHolds,
           ContractImplementsLedger, LedgerTypeCorrect, PTL
        DEF Spec, ImplementsGovernance, ImplementsEscrowLedger
-----------------------------------------------------------------------------
(* The executed proposals that decide an alert.                            *)
Decisions ==
    {p \in DOMAIN proposals :
        /\ proposals[p].executed
        /\ proposals[p].call.target = "verify_emergency_vulnerability"}

Dismissal(a) ==
    [ target |-> "verify_emergency_vulnerability", alert |-> a,
      verified |-> FALSE ]

(* They dismiss alerts that exist: an alert reported later, under a new    *)
(* id, is undecided.  An alert is a false positive when one dismisses it.  *)
AlertInv ==
    /\ \A p \in Decisions :
           \E a \in DOMAIN alerts : proposals[p].call = Dismissal(a)
    /\ \A a \in DOMAIN alerts :
           alerts[a].status = "false_positive" <=>
               \E p \in Decisions : proposals[p].call = Dismissal(a)

(* A call that decides nothing leaves the alerts as they are, adds a       *)
(* pending one, or, in initialize, forgets alerts and proposals.           *)
AlertsStay ==
    \/ DOMAIN alerts' = {} /\ DOMAIN proposals' = {}
    \/ /\ DOMAIN alerts \subseteq DOMAIN alerts'
       /\ \A a \in DOMAIN alerts' :
              IF a \in DOMAIN alerts
              THEN alerts'[a] = alerts[a]
              ELSE alerts'[a].status = "pending"

Decides ==
    \E u \in Addresses, p \in DOMAIN proposals : DismissEmergency(u, p)

(* The calls that decide nothing.                                          *)
LEMMA NoDecision ==
    ASSUME GovInv, AlertTypeOK, [Next]_vars, ~Decides
    PROVE  Decisions' \subseteq Decisions /\ AlertsStay
<1>1. ASSUME UNCHANGED govVars PROVE Decisions' \subseteq Decisions
  BY <1>1 DEF govVars, Decisions
<1>2. ASSUME UNCHANGED ownVars PROVE AlertsStay
  BY <1>2 DEF ownVars, alertVars, AlertsStay
<1>3. ASSUME NEW a \in Addresses, Initialize(a)
      PROVE  Decisions' \subseteq Decisions /\ AlertsStay
  BY <1>3 DEF Initialize, SeedRoles, Decisions, AlertsStay
<1>4. CASE FundStep
  BY <1>1, <1>4 DEF FundStep, FundBountyPool, FundEmergencyPool, alertVars,
                    AlertsStay
<1>9. CASE AlertStep
  <2>1. PICK u \in Addresses, severity \in Severities :
            ReportEmergencyVulnerability(u, severity)
    BY <1>9 DEF AlertStep
  <2> DEFINE id == alertCounter + 1
             new == [ reporter |-> u, status |-> "pending",
                      reward |-> RewardFor[severity] ]
  <2>2. /\ alerts' = Put(alerts, id, new) /\ id \notin DOMAIN alerts
        /\ new.status = "pending" /\ UNCHANGED govVars
    BY <2>1 DEF ReportEmergencyVulnerability, AlertTypeOK
  <2> HIDE DEF id, new
  <2> QED BY <1>1, <2>2 DEF Put, AlertsStay
<1>5. CASE ProposalStep
  <2>1. UNCHANGED ownVars
    BY <1>5 DEF ProposalStep
  <2>2. \A p \in DOMAIN proposals' :
            proposals'[p].executed =>
                /\ p \in DOMAIN proposals
                /\ proposals'[p].call = proposals[p].call
                /\ proposals[p].executed
    <3>1. CASE ProposeStep
      <4>1. PICK v \in Addresses, call \in Calls, required \in Nat,
                 delay \in Nat : Created(v, call, required, delay)
        BY <3>1, ProposeCreates DEF GovInv
      <4> DEFINE new == NewProposal(v, call, required, delay)
      <4>2. /\ proposals' = Put(proposals, proposalCounter + 1, new)
            /\ ~new.executed
            /\ proposalCounter + 1 \notin DOMAIN proposals
        BY <4>1 DEF Created, NewProposal, GovInv, GovernanceTypeOK
      <4> HIDE DEF new
      <4> QED BY <4>2 DEF Put
    <3>2. CASE ApproveStep
      <4>1. PICK v \in Addresses, q \in DOMAIN proposals, entry \in Targets :
                Approve(v, q, entry)
        BY <3>2 DEF ApproveStep
      <4> DEFINE approvals == proposals[q].approvals \cup {v}
                 new == [proposals[q] EXCEPT !.approvals = approvals]
      <4>2. proposals' = [proposals EXCEPT ![q] = new]
        BY <4>1 DEF Approve
      <4>3. proposals[q] \in Proposals
        BY DEF GovInv, GovernanceTypeOK
      <4>4. new.executed = proposals[q].executed /\ new.call = proposals[q].call
        BY <4>3 DEF Proposals
      <4> HIDE DEF new
      <4> QED BY <4>2, <4>4 DEF GovInv, GovernanceTypeOK
    <3> QED BY <1>5, <3>1, <3>2 DEF ProposalStep
  <2>3. Decisions' \subseteq Decisions
    BY <2>2 DEF Decisions
  <2> QED BY <1>2, <2>1, <2>3
<1>6. CASE DecideStep
  <2>1. PICK v \in Addresses, q \in DOMAIN proposals :
            ExecuteRoleGrant(v, q) /\ UNCHANGED <<escrowVars, ownVars>>
    BY <1>6 DEF DecideStep, Decides
  <2>2. /\ proposals[q].call.target # "verify_emergency_vulnerability"
        /\ proposals' = [proposals EXCEPT ![q].executed = TRUE]
    BY <2>1 DEF ExecuteRoleGrant, ExecuteProposal
  <2> DEFINE new == [proposals[q] EXCEPT !.executed = TRUE]
  <2>3. proposals[q] \in Proposals
    BY DEF GovInv, GovernanceTypeOK
  <2>4. new.call = proposals[q].call /\ proposals' = [proposals EXCEPT ![q] = new]
    BY <2>2, <2>3 DEF Proposals
  <2> HIDE DEF new
  <2>5. Decisions' \subseteq Decisions
    BY <2>2, <2>4 DEF Decisions, GovInv, GovernanceTypeOK
  <2> QED BY <1>2, <2>1, <2>5
<1>7. CASE EscrowStep
  BY <1>1, <1>2, <1>7 DEF EscrowStep, MarkEscrowConditionsMet
<1>8. CASE \/ AdvanceClock /\ UNCHANGED <<govVars, escrowVars, ownVars>>
           \/ UNCHANGED vars
  BY <1>1, <1>2, <1>8 DEF vars
<1> QED BY <1>3, <1>4, <1>5, <1>6, <1>7, <1>8, <1>9 DEF Next

(* What a dismissal writes: one more proposal is executed, and the alert   *)
(* it names becomes a false positive.                                      *)
LEMMA DismissalFacts ==
    ASSUME GovInv, AlertTypeOK, NEW u \in Addresses,
           NEW p \in DOMAIN proposals, DismissEmergency(u, p)
    PROVE  \E a \in DOMAIN alerts :
               /\ proposals[p].call = Dismissal(a)
               /\ Decisions' = Decisions \cup {p}
               /\ DOMAIN alerts' = DOMAIN alerts
               /\ alerts'[a].status = "false_positive"
               /\ \A b \in DOMAIN alerts : b # a => alerts'[b] = alerts[b]
<1> DEFINE call == proposals[p].call
           id == call.alert
           new == [proposals[p] EXCEPT !.executed = TRUE]
           alert == [alerts[id] EXCEPT !.status = "false_positive"]
<1>1. /\ ~call.verified /\ call.target = "verify_emergency_vulnerability"
      /\ proposals' = [proposals EXCEPT ![p] = new]
      /\ id \in DOMAIN alerts /\ alerts' = [alerts EXCEPT ![id] = alert]
  BY DEF DismissEmergency, ExecuteDismissal, ExecuteProposal
<1>2. proposals[p] \in Proposals /\ alerts[id] \in Alerts
  BY <1>1 DEF GovInv, GovernanceTypeOK, AlertTypeOK
<1>3. call = Dismissal(id)
  <2>1. call \in EmergencyVerifications
    BY <1>1, <1>2 DEF Proposals, Calls, RoleGrants, BountyVerifications
  <2> QED BY <1>1, <2>1 DEF EmergencyVerifications, Dismissal
<1>4. /\ new.executed /\ new.call = call
      /\ alert.status = "false_positive"
  BY <1>2 DEF Proposals, Alerts
<1> HIDE DEF new, alert
<1>5. Decisions' = Decisions \cup {p}
  <2>1. /\ DOMAIN proposals' = DOMAIN proposals
        /\ proposals'[p] = new
        /\ \A q \in DOMAIN proposals : q # p => proposals'[q] = proposals[q]
    BY <1>1 DEF GovInv, GovernanceTypeOK
  <2> QED BY <1>1, <1>4, <2>1 DEF Decisions
<1>6. /\ DOMAIN alerts' = DOMAIN alerts /\ alerts'[id] = alert
      /\ \A b \in DOMAIN alerts : b # id => alerts'[b] = alerts[b]
  BY <1>1 DEF AlertTypeOK
<1> QED BY <1>1, <1>3, <1>4, <1>5, <1>6

(* A call that decides nothing keeps the invariant.                        *)
LEMMA AlertInvKept ==
    ASSUME GovInv, AlertTypeOK, AlertInv, [Next]_vars, ~Decides
    PROVE  AlertInv'
<1>1. /\ Decisions' = Decisions
      /\ \A p \in Decisions : proposals'[p].call = proposals[p].call
  BY NoDecision, ProposalsAndRolesGrow DEF Decisions
<1>2. CASE DOMAIN alerts' = {} /\ DOMAIN proposals' = {}
  BY <1>2 DEF AlertInv, Decisions
<1>3. CASE /\ DOMAIN alerts \subseteq DOMAIN alerts'
           /\ \A a \in DOMAIN alerts' :
                  IF a \in DOMAIN alerts
                  THEN alerts'[a] = alerts[a]
                  ELSE alerts'[a].status = "pending"
  <2>1. \A p \in Decisions' :
            \E a \in DOMAIN alerts' : proposals'[p].call = Dismissal(a)
    BY <1>1, <1>3 DEF AlertInv
  <2>2. ASSUME NEW a \in DOMAIN alerts'
        PROVE  alerts'[a].status = "false_positive" <=>
                   \E p \in Decisions' : proposals'[p].call = Dismissal(a)
    <3>1. CASE a \in DOMAIN alerts
      BY <1>1, <1>3, <3>1 DEF AlertInv
    <3>2. CASE a \notin DOMAIN alerts
      <4>1. alerts'[a].status # "false_positive"
        BY <1>3, <3>2
      <4>2. ASSUME NEW p \in Decisions, proposals[p].call = Dismissal(a)
            PROVE  FALSE
        <5>1. PICK b \in DOMAIN alerts : proposals[p].call = Dismissal(b)
          BY DEF AlertInv
        <5>2. a = b
          BY <4>2, <5>1 DEF Dismissal
        <5> QED BY <3>2, <5>2
      <4> QED BY <1>1, <4>1, <4>2
    <3> QED BY <3>1, <3>2
  <2> QED BY <2>1, <2>2 DEF AlertInv, Dismissal
<1> QED BY <1>2, <1>3, NoDecision DEF AlertsStay

(* A dismissal keeps it: it is itself the cause of what it writes.         *)
LEMMA AlertInvDecided ==
    ASSUME GovInv, AlertTypeOK, AlertInv, [Next]_vars, Decides
    PROVE  AlertInv'
<1>1. PICK u \in Addresses, p \in DOMAIN proposals : DismissEmergency(u, p)
  BY DEF Decides
<1>2. PICK a \in DOMAIN alerts :
          /\ proposals[p].call = Dismissal(a)
          /\ Decisions' = Decisions \cup {p}
          /\ DOMAIN alerts' = DOMAIN alerts
          /\ alerts'[a].status = "false_positive"
          /\ \A b \in DOMAIN alerts : b # a => alerts'[b] = alerts[b]
  BY <1>1, DismissalFacts
<1>3. /\ \A q \in DOMAIN proposals : proposals'[q].call = proposals[q].call
      /\ Decisions \subseteq DOMAIN proposals
  BY ProposalsAndRolesGrow DEF Decisions
<1>4. \A q \in Decisions' :
          \E b \in DOMAIN alerts' : proposals'[q].call = Dismissal(b)
  BY <1>2, <1>3 DEF AlertInv
<1>5. ASSUME NEW b \in DOMAIN alerts', b # a
      PROVE  alerts'[b].status = "false_positive" <=>
                 \E q \in Decisions' : proposals'[q].call = Dismissal(b)
  <2>1. proposals[p].call # Dismissal(b)
    BY <1>2, <1>5 DEF Dismissal
  <2> QED BY <1>2, <1>3, <1>5, <2>1 DEF AlertInv
<1>6. alerts'[a].status = "false_positive" <=>
          \E q \in Decisions' : proposals'[q].call = Dismissal(a)
  BY <1>2, <1>3
<1> QED BY <1>4, <1>5, <1>6 DEF AlertInv, Dismissal

LEMMA AlertInvHolds == Spec => []AlertInv
<1>1. Init => AlertInv
  BY DEF Init, GovInit, AlertInv, Decisions
<1>2. GovInv /\ OwnTypeOK /\ AlertInv /\ [Next]_vars => AlertInv'
  BY AlertInvKept, AlertInvDecided DEF OwnTypeOK
<1> QED BY <1>1, <1>2, OwnTypesHold, ContractImplementsGovernance,
           GovInvHolds, PTL DEF Spec, ImplementsGovernance

(* An executed decision has the floors of its kind behind it.              *)
LEMMA DecisionsDismiss ==
    ASSUME GovInv, NEW p, NEW a
    PROVE  Dismisses(p, a) /\ p \in DOMAIN proposals <=>
               p \in Decisions /\ proposals[p].call = Dismissal(a)
<1>1. Dismisses(p, a) /\ p \in DOMAIN proposals =>
          p \in Decisions /\ proposals[p].call = Dismissal(a)
  BY DEF Dismisses, Decisions, Dismissal
<1>2. ASSUME p \in Decisions, proposals[p].call = Dismissal(a)
      PROVE  Dismisses(p, a) /\ p \in DOMAIN proposals
  <2> DEFINE proposal == proposals[p]
  <2>1. /\ p \in DOMAIN proposals /\ proposal \in Proposals
        /\ proposal.executed
        /\ proposal.call.target = "verify_emergency_vulnerability"
    BY <1>2 DEF Decisions, GovInv, GovernanceTypeOK
  <2>2. /\ Cardinality(proposal.approvals) >= proposal.required
        /\ now >= proposal.createdAt + proposal.delay
        /\ proposal.required >= MinEmergencyApprovals
        /\ proposal.delay >= MinEmergencyDelay
    BY <2>1 DEF GovInv, ExecutedWithQuorum, ApprovalFloor, DelayFloor
  <2>3. /\ IsFiniteSet(Addresses) /\ proposal.approvals \subseteq Addresses
        /\ proposal.required \in Nat /\ proposal.delay \in Nat
        /\ proposal.createdAt \in Nat
    BY <2>1, HostAssumption DEF Proposals
  <2>4. Cardinality(proposal.approvals) \in Nat
    BY <2>3, FS_Subset, FS_CardinalityType
  <2>5. now \in Nat
    BY DEF GovInv, GovernanceTypeOK, HostTypeOK
  <2> HIDE DEF proposal
  <2>6. /\ Cardinality(proposal.approvals) >= MinEmergencyApprovals
        /\ now >= proposal.createdAt + MinEmergencyDelay
    BY <2>2, <2>3, <2>4, <2>5, GovernanceAssumption
  <2> QED BY <1>2, <2>1, <2>6 DEF Dismisses, Dismissal, proposal
<1> QED BY <1>1, <1>2

(* An alert is a false positive exactly when an executed proposal says so, *)
(* with the approvals and the delay the code asks of it, for any number of *)
(* proposals about one alert.                                              *)
THEOREM AlertsFollowProposals == Spec => []AlertsAreDecidedByProposals
<1>1. GovInv /\ AlertInv => AlertsAreDecidedByProposals
  <2> SUFFICES ASSUME GovInv, AlertInv, NEW a \in DOMAIN alerts
               PROVE  alerts[a].status = "false_positive" <=>
                          \E p \in DOMAIN proposals : Dismisses(p, a)
    BY DEF AlertsAreDecidedByProposals
  <2>1. \A p : Dismisses(p, a) /\ p \in DOMAIN proposals <=>
                  p \in Decisions /\ proposals[p].call = Dismissal(a)
    BY DecisionsDismiss
  <2>2. alerts[a].status = "false_positive" <=>
            \E p \in Decisions : proposals[p].call = Dismissal(a)
    BY DEF AlertInv
  <2> QED BY <2>1, <2>2
<1> QED BY <1>1, AlertInvHolds, ContractImplementsGovernance, GovInvHolds, PTL
        DEF ImplementsGovernance
-----------------------------------------------------------------------------
(* The key of a reputation does not fit: "REP_" leaves five characters.    *)
KeyIsLong ==
    /\ AddressTextLength \in Nat
    /\ AddressTextLength > ShortSymbolLength - PrefixLength

(* No call that updates a reputation returns.                              *)
LEMMA ReputationCallsTrap ==
    ASSUME KeyIsLong
    PROVE  ~ReputationCall
<1>1. ~KeyIsShort
  BY DEF KeyIsLong, KeyIsShort, PrefixLength, ShortSymbolLength
<1>2. \A u, n, e : ~UpdateReputation(u, n, e)
  BY <1>1 DEF UpdateReputation
<1>3. \A r, b : ~RecordVerification(r, b)
  BY <1>2 DEF RecordVerification
<1>4. \A u : ~ReportVulnerability(u)
  BY <1>2 DEF ReportVulnerability
<1>5. \A u, p : ~ExecuteHighBountyVerification(u, p)
  BY <1>3 DEF ExecuteHighBountyVerification
<1>6. \A u, p : ~ConfirmEmergency(u, p)
  BY <1>2 DEF ConfirmEmergency
<1> QED BY <1>3, <1>4, <1>5, <1>6 DEF ReputationCall, VerifyVulnerability

(* For any address whose text makes the key too long, the calls that       *)
(* update a reputation add nothing to what the contract does: everything   *)
(* proved of ScannerContract holds of the contract with these calls.       *)
THEOREM TrapsAddNothing == KeyIsLong => (WholeSpec => Spec)
<1> SUFFICES ASSUME KeyIsLong PROVE WholeSpec => Spec
  OBVIOUS
<1>1. WholeInit => Init
  BY DEF WholeInit
<1>2. [OtherCall \/ ReputationCall]_allVars => [Next]_vars
  BY ReputationCallsTrap DEF OtherCall, allVars
<1> QED BY <1>1, <1>2, PTL DEF WholeSpec, Spec

(* So no report, no counter and no reputation is ever stored.              *)
THEOREM NothingIsEverReported == KeyIsLong => (WholeSpec => []NothingIsReported)
<1> SUFFICES ASSUME KeyIsLong PROVE WholeSpec => []NothingIsReported
  OBVIOUS
<1>1. WholeInit => NothingIsReported
  BY DEF WholeInit, NothingIsReported
<1>2. NothingIsReported /\ [OtherCall \/ ReputationCall]_allVars
          => NothingIsReported'
  BY ReputationCallsTrap DEF OtherCall, NothingIsReported, allVars, reportVars
<1> QED BY <1>1, <1>2, PTL DEF WholeSpec
=============================================================================
