-------------------------- MODULE GovernanceProofs --------------------------
(***************************************************************************)
(* Proofs about Governance, for any addresses, floors, requests and        *)
(* bounds.                                                                 *)
(***************************************************************************)
EXTENDS Governance, FiniteSetTheorems, TLAPS

(* The proposal that create_multi_sig_proposal stores. *)
NewProposal(u, call, required, delay) ==
    [ proposer |-> u, call |-> call, approvals |-> {}, required |-> required,
      createdAt |-> now, delay |-> delay, executed |-> FALSE ]

(* What a successful propose_* call wrote. *)
Created(u, call, required, delay) ==
    /\ proposalCounter < MaxProposals
    /\ proposalCounter' = proposalCounter + 1
    /\ proposals' = Put(proposals, proposalCounter + 1,
                        NewProposal(u, call, required, delay))
    /\ UNCHANGED <<hostVars, roles>>

(* Map::set writes one key and keeps the others. *)
LEMMA PutIsUpdate ==
    ASSUME NEW map, NEW key, NEW value
    PROVE  /\ DOMAIN Put(map, key, value) = DOMAIN map \cup {key}
           /\ Put(map, key, value)[key] = value
           /\ \A k \in DOMAIN map : k # key => Put(map, key, value)[k] = map[k]
BY DEF Put

(* It keeps a map of well-formed values one. *)
LEMMA PutType ==
    ASSUME NEW S, NEW map, map \in [DOMAIN map -> S], NEW key, NEW value \in S
    PROVE  Put(map, key, value) \in [DOMAIN map \cup {key} -> S]
BY DEF Put

(* Every propose_* call by a permitted address creates a well-formed       *)
(* proposal that asks for at least the floors of its kind.                 *)
LEMMA ProposeCreates ==
    ASSUME GovernanceTypeOK, ProposeStep
    PROVE  \E u \in Addresses, call \in Calls, required, delay \in Nat :
               /\ Created(u, call, required, delay)
               /\ roles[u] # {}
               /\ required >= ApprovalFloor[call.target]
               /\ delay >= DelayFloor[call.target]
<1> USE GovernanceAssumption, RolesAssumption, HostAssumption
<1>1. PICK u \in Addresses, required \in RequestedApprovals,
           delay \in RequestedDelays :
        \/ \E r \in ReportIds, b \in Bounties :
               ProposeHighBountyVerification(u, r, b, required, delay)
        \/ \E a \in AlertIds, v \in BOOLEAN :
               ProposeEmergencyVerification(u, a, v, required, delay)
        \/ \E w \in Addresses, role \in ProposedRoles :
               ProposeRoleGrant(u, w, role, required, delay)
  BY DEF ProposeStep
<1>2. required \in Nat /\ delay \in Nat
  OBVIOUS
<1>3. ASSUME NEW floor \in Nat, NEW n \in Nat
      PROVE  AtLeast(floor, n) \in Nat /\ AtLeast(floor, n) >= floor
  BY DEF AtLeast
<1>4. CASE \E r \in ReportIds, b \in Bounties :
               ProposeHighBountyVerification(u, r, b, required, delay)
  <2>1. PICK r \in ReportIds, b \in Bounties :
            ProposeHighBountyVerification(u, r, b, required, delay)
    BY <1>4
  <2> DEFINE call == [target |-> "verify_vulnerability", report |-> r,
                      bounty |-> b]
  <2>2. call \in Calls /\ ApprovalFloor[call.target] = 0
                       /\ DelayFloor[call.target] = 0
    BY DEF Calls, BountyVerifications, ApprovalFloor, DelayFloor
  <2>3. Created(u, call, required, delay) /\ roles[u] # {}
    BY <2>1 DEF ProposeHighBountyVerification, CreateProposal, Created,
                NewProposal, HasPermission
  <2> HIDE DEF call
  <2> QED BY <1>2, <2>2, <2>3
<1>5. CASE \E a \in AlertIds, v \in BOOLEAN :
               ProposeEmergencyVerification(u, a, v, required, delay)
  <2>1. PICK a \in AlertIds, v \in BOOLEAN :
            ProposeEmergencyVerification(u, a, v, required, delay)
    BY <1>5
  <2> DEFINE call == [target |-> "verify_emergency_vulnerability",
                      alert |-> a, verified |-> v]
             req == AtLeast(MinEmergencyApprovals, required)
             del == AtLeast(MinEmergencyDelay, delay)
  <2>2. call \in Calls /\ ApprovalFloor[call.target] = MinEmergencyApprovals
                       /\ DelayFloor[call.target] = MinEmergencyDelay
    BY DEF Calls, EmergencyVerifications, ApprovalFloor, DelayFloor
  <2>3. Created(u, call, req, del) /\ roles[u] # {}
    BY <2>1 DEF ProposeEmergencyVerification, CreateProposal, Created,
                NewProposal, HasPermission
  <2>4. /\ req \in Nat /\ req >= MinEmergencyApprovals
        /\ del \in Nat /\ del >= MinEmergencyDelay
    BY <1>2, <1>3
  <2> HIDE DEF call, req, del
  <2> QED BY <2>2, <2>3, <2>4
<1>6. CASE \E w \in Addresses, role \in ProposedRoles :
               ProposeRoleGrant(u, w, role, required, delay)
  <2>1. PICK w \in Addresses, role \in ProposedRoles :
            ProposeRoleGrant(u, w, role, required, delay)
    BY <1>6
  <2> DEFINE call == [target |-> "grant_role", user |-> w, role |-> role]
             req == AtLeast(MinRoleApprovals, required)
             del == AtLeast(MinRoleDelay, delay)
  <2>2. call \in Calls /\ ApprovalFloor[call.target] = MinRoleApprovals
                       /\ DelayFloor[call.target] = MinRoleDelay
    BY DEF Calls, RoleGrants, ApprovalFloor, DelayFloor
  <2>3. Created(u, call, req, del) /\ roles[u] # {}
    BY <2>1 DEF ProposeRoleGrant, CreateProposal, Created, NewProposal,
                HasPermission
  <2>4. /\ req \in Nat /\ req >= MinRoleApprovals
        /\ del \in Nat /\ del >= MinRoleDelay
    BY <1>2, <1>3
  <2> HIDE DEF call, req, del
  <2> QED BY <2>2, <2>3, <2>4
<1> QED BY <1>1, <1>4, <1>5, <1>6
-----------------------------------------------------------------------------

(* The state before the first call has the types.                          *)
LEMMA GovernanceInitTypeOK == GovernanceInit => GovernanceTypeOK
BY HostAssumption, GovernanceAssumption
   DEF GovernanceInit, HostInit, GovInit, GovernanceTypeOK, HostTypeOK, Roles

(* Writing the approvals or the executed flag of a stored proposal keeps   *)
(* the proposals well-formed.                                              *)
LEMMA ProposalWrite ==
    ASSUME GovernanceTypeOK, NEW p \in DOMAIN proposals,
           NEW approvals \in SUBSET Addresses
    PROVE  /\ [proposals EXCEPT ![p].approvals = approvals]
                  \in [DOMAIN proposals -> Proposals]
           /\ [proposals EXCEPT ![p].executed = TRUE]
                  \in [DOMAIN proposals -> Proposals]
<1>1. proposals[p] \in Proposals
  BY DEF GovernanceTypeOK
<1>2. [proposals[p] EXCEPT !.approvals = approvals] \in Proposals
  BY <1>1 DEF Proposals
<1>3. [proposals[p] EXCEPT !.executed = TRUE] \in Proposals
  BY <1>1 DEF Proposals
<1> QED BY <1>2, <1>3 DEF GovernanceTypeOK

(* Every step keeps the types. *)
LEMMA GovernanceNextTypeOK ==
    GovernanceTypeOK /\ [GovernanceNext]_governanceVars => GovernanceTypeOK'
<1> SUFFICES ASSUME GovernanceTypeOK, [GovernanceNext]_governanceVars
             PROVE  GovernanceTypeOK'
  OBVIOUS
<1> USE HostAssumption, GovernanceAssumption
<1>1. CASE AdvanceClock /\ UNCHANGED govVars
  BY <1>1 DEF AdvanceClock, govVars, GovernanceTypeOK, HostTypeOK
<1>2. ASSUME NEW a \in Addresses, GovernanceInitialize(a)
      PROVE  GovernanceTypeOK'
  BY <1>2 DEF GovernanceInitialize, ClaimAdmin, SeedRoles, GovernanceTypeOK,
              HostTypeOK, Roles, RolePermissions
<1>3. CASE ProposeStep
  <2>1. PICK u \in Addresses, call \in Calls, required \in Nat, delay \in Nat :
            Created(u, call, required, delay)
    BY <1>3, ProposeCreates
  <2>2. NewProposal(u, call, required, delay) \in Proposals
    BY DEF NewProposal, Proposals, GovernanceTypeOK, HostTypeOK
  <2>3. /\ proposals' \in [DOMAIN proposals \cup {proposalCounter + 1}
                               -> Proposals]
        /\ DOMAIN proposals' = DOMAIN proposals \cup {proposalCounter + 1}
    BY <2>1, <2>2, PutType, PutIsUpdate DEF Created, GovernanceTypeOK
  <2> QED BY <2>1, <2>3 DEF Created, GovernanceTypeOK, HostTypeOK, hostVars
<1>4. CASE ApproveStep
  <2>1. PICK u \in Addresses, p \in DOMAIN proposals, entry \in Targets :
            Approve(u, p, entry)
    BY <1>4 DEF ApproveStep
  <2>2. proposals[p].approvals \cup {u} \in SUBSET Addresses
    BY DEF GovernanceTypeOK, Proposals
  <2>3. proposals' = [proposals EXCEPT
                         ![p].approvals = proposals[p].approvals \cup {u}]
    BY <2>1 DEF Approve
  <2>4. proposals' \in [DOMAIN proposals -> Proposals]
    BY <2>2, <2>3, ProposalWrite
  <2> QED BY <2>1, <2>4 DEF Approve, GovernanceTypeOK, HostTypeOK, hostVars
<1>5. ASSUME NEW u \in Addresses, NEW p \in DOMAIN proposals,
             ExecuteRoleGrant(u, p)
      PROVE  GovernanceTypeOK'
  <2>1. proposals' \in [DOMAIN proposals -> Proposals]
    BY <1>5, ProposalWrite DEF ExecuteRoleGrant, ExecuteProposal
  <2>2. /\ proposals[p].call \in Calls
        /\ proposals[p].call.target = "grant_role"
    BY <1>5 DEF ExecuteRoleGrant, ExecuteProposal, GovernanceTypeOK, Proposals
  <2>3. proposals[p].call \in RoleGrants
    BY <2>2 DEF Calls, RoleGrants, BountyVerifications, EmergencyVerifications
  <2>4. proposals[p].call.user \in Addresses /\ proposals[p].call.role \in Roles
    BY <2>3 DEF RoleGrants
  <2>5. roles' \in [Addresses -> SUBSET Roles]
    BY <1>5, <2>4 DEF ExecuteRoleGrant, GovernanceTypeOK
  <2> QED
    BY <1>5, <2>1, <2>5
       DEF ExecuteRoleGrant, GovernanceTypeOK, HostTypeOK, hostVars
<1>6. ASSUME NEW u \in Addresses, NEW p \in DOMAIN proposals,
             ExecuteDismissal(u, p)
      PROVE  GovernanceTypeOK'
  <2>1. proposals' \in [DOMAIN proposals -> Proposals]
    BY <1>6, ProposalWrite DEF ExecuteDismissal, ExecuteProposal
  <2> QED
    BY <1>6, <2>1
       DEF ExecuteDismissal, GovernanceTypeOK, HostTypeOK, hostVars
<1>7. CASE UNCHANGED governanceVars
  BY <1>7 DEF governanceVars, hostVars, govVars, GovernanceTypeOK, HostTypeOK
<1> QED
  BY <1>1, <1>2, <1>3, <1>4, <1>5, <1>6, <1>7 DEF GovernanceNext, ExecuteStep

(* Type correctness of the roles and proposals.                            *)
THEOREM GovernanceTypeCorrect == GovernanceSpec => []GovernanceTypeOK
BY GovernanceInitTypeOK, GovernanceNextTypeOK, PTL DEF GovernanceSpec
-----------------------------------------------------------------------------
(* Before initialize nobody holds a role and nothing is proposed: this is  *)
(* why the maps that initialize overwrites hold nothing.                   *)
NothingBeforeInitialize ==
    admin = NoAddress => /\ DOMAIN proposals = {}
                         /\ \A u \in Addresses : roles[u] = {}

(* Every proposal asks for the floors of its kind, executed or not.        *)
FloorsAreAsked ==
    \A p \in DOMAIN proposals :
        /\ proposals[p].required >= ApprovalFloor[proposals[p].call.target]
        /\ proposals[p].delay >= DelayFloor[proposals[p].call.target]

RolesGrow == \A u \in Addresses : roles[u] \subseteq roles'[u]

(* A proposal that was not there before is fresh, and somebody holds the   *)
(* role it took to make it.                                                *)
NewProposalsAreFresh ==
    \A p \in DOMAIN proposals' \ DOMAIN proposals :
        /\ ~proposals'[p].executed
        /\ proposals'[p].approvals = {}
        /\ \E u \in Addresses : roles[u] # {}
        /\ proposals'[p].required >= ApprovalFloor[proposals'[p].call.target]
        /\ proposals'[p].delay >= DelayFloor[proposals'[p].call.target]

(* An approval is added by an address that has a role and to a proposal    *)
(* that is not executed.                                                   *)
ApprovalsAreGiven ==
    \A p \in DOMAIN proposals :
        \A u \in proposals'[p].approvals \ proposals[p].approvals :
            /\ ~proposals[p].executed
            /\ roles[u] # {}

(* A proposal is executed when it can be.                                  *)
ExecutionsAreDue ==
    \A p \in DOMAIN proposals :
        proposals'[p].executed /\ ~proposals[p].executed =>
            /\ CanExecute(p)
            /\ proposals'[p].approvals = proposals[p].approvals

(* Every role that appears has its cause in the same step.                 *)
NewRolesHaveACause ==
    \A u \in Addresses : \A role \in roles'[u] \ roles[u] :
        \/ u = admin' /\ role = "SuperAdmin"
        \/ \E p \in DOMAIN proposals' :
               /\ proposals'[p].executed
               /\ proposals'[p].call =
                      [target |-> "grant_role", user |-> u, role |-> role]

(* What one step does to the roles and the proposals.                      *)
GovernanceStep ==
    /\ now' >= now
    /\ admin # NoAddress => admin' = admin
    /\ ProposalsAreKept
    /\ RolesGrow
    /\ NewProposalsAreFresh
    /\ ApprovalsAreGiven
    /\ ExecutionsAreDue
    /\ NewRolesHaveACause

(* Writing one field of a well-formed proposal.                            *)
LEMMA WriteField ==
    ASSUME NEW r \in Proposals, NEW approvals \in SUBSET Addresses,
           NEW executed \in BOOLEAN
    PROVE  LET a == [r EXCEPT !.approvals = approvals]
               e == [r EXCEPT !.executed = executed]
               b == [r EXCEPT !.approvals = approvals, !.executed = executed]
           IN  /\ a.approvals = approvals /\ a.executed = r.executed
               /\ e.approvals = r.approvals /\ e.executed = executed
               /\ approvals = r.approvals => b = e
               /\ executed = r.executed => b = a
               /\ approvals = r.approvals /\ executed = r.executed => b = r
BY DEF Proposals

(* The three propose_* calls.                                              *)
LEMMA ProposeFacts ==
    ASSUME GovernanceTypeOK, ProposeStep
    PROVE  GovernanceStep
<1>1. PICK u \in Addresses, call \in Calls, required \in Nat, delay \in Nat :
          /\ Created(u, call, required, delay)
          /\ roles[u] # {}
          /\ required >= ApprovalFloor[call.target]
          /\ delay >= DelayFloor[call.target]
  BY ProposeCreates
<1> DEFINE n == proposalCounter + 1
           new == NewProposal(u, call, required, delay)
<1>2. /\ DOMAIN proposals' = DOMAIN proposals \cup {n}
      /\ proposals'[n] = new
      /\ \A k \in DOMAIN proposals : k # n => proposals'[k] = proposals[k]
  <2>1. proposals' = Put(proposals, n, new)
    BY <1>1 DEF Created
  <2> HIDE DEF n, new
  <2> QED BY <2>1 DEF Put
<1>3. n \notin DOMAIN proposals
  BY DEF GovernanceTypeOK
<1>4. \A k \in DOMAIN proposals : proposals'[k] = proposals[k]
  BY <1>2, <1>3
<1>5. \A k \in DOMAIN proposals : proposals[k] \in Proposals
  BY DEF GovernanceTypeOK
<1>6. ProposalsAreKept
  <2> SUFFICES ASSUME NEW k \in DOMAIN proposals
               PROVE  proposals[k] = [proposals[k] EXCEPT
                                         !.approvals = proposals[k].approvals,
                                         !.executed = proposals[k].executed]
    BY <1>2, <1>4 DEF ProposalsAreKept
  <2> QED BY <1>5 DEF Proposals
<1>7. NewProposalsAreFresh
  BY <1>1, <1>2 DEF NewProposalsAreFresh, NewProposal
<1> HIDE DEF n, new
<1>8. /\ now' = now /\ now \in Nat /\ admin' = admin /\ roles' = roles
  BY <1>1 DEF Created, hostVars, GovernanceTypeOK, HostTypeOK
<1> QED
  BY <1>4, <1>6, <1>7, <1>8
     DEF GovernanceStep, RolesGrow, ApprovalsAreGiven, ExecutionsAreDue,
         NewRolesHaveACause

(* The three approve_* calls.                                              *)
LEMMA ApproveFacts ==
    ASSUME GovernanceTypeOK, NEW u \in Addresses, NEW p \in DOMAIN proposals,
           NEW entry, Approve(u, p, entry)
    PROVE  GovernanceStep
<1> DEFINE approvals == proposals[p].approvals \cup {u}
<1>1. proposals[p] \in Proposals /\ approvals \in SUBSET Addresses
  BY DEF GovernanceTypeOK, Proposals
<1>2. /\ DOMAIN proposals' = DOMAIN proposals
      /\ proposals'[p] = [proposals[p] EXCEPT !.approvals = approvals]
      /\ \A k \in DOMAIN proposals : k # p => proposals'[k] = proposals[k]
  BY DEF Approve, GovernanceTypeOK
<1>3. /\ proposals'[p].approvals = approvals
      /\ proposals'[p].executed = proposals[p].executed
      /\ ~proposals[p].executed
      /\ roles[u] # {}
  BY <1>1, <1>2, WriteField DEF Approve, HasPermission, Proposals
<1>4. ProposalsAreKept
  <2> SUFFICES ASSUME NEW k \in DOMAIN proposals
               PROVE  /\ proposals'[k] =
                            [proposals[k] EXCEPT
                                !.approvals = proposals'[k].approvals,
                                !.executed = proposals'[k].executed]
                      /\ proposals[k].approvals \subseteq
                             proposals'[k].approvals
                      /\ proposals[k].executed =>
                             proposals'[k] = proposals[k]
    BY <1>2 DEF ProposalsAreKept
  <2>1. CASE k = p
    BY <1>1, <1>2, <1>3, <2>1 DEF Proposals
  <2>2. CASE k # p
    BY <1>2, <2>2 DEF GovernanceTypeOK, Proposals
  <2> QED BY <2>1, <2>2
<1>5. ApprovalsAreGiven
  BY <1>2, <1>3 DEF ApprovalsAreGiven
<1>6. ExecutionsAreDue
  BY <1>2, <1>3 DEF ExecutionsAreDue
<1>7. now' = now /\ now \in Nat /\ admin' = admin /\ roles' = roles
  BY DEF Approve, hostVars, GovernanceTypeOK, HostTypeOK
<1> QED
  BY <1>2, <1>4, <1>5, <1>6, <1>7
     DEF GovernanceStep, RolesGrow, NewProposalsAreFresh, NewRolesHaveACause

(* What the execute_* calls share.                                         *)
LEMMA ExecuteFacts ==
    ASSUME GovernanceTypeOK, NEW u \in Addresses, NEW p \in DOMAIN proposals,
           NEW target, ExecuteProposal(u, p, target)
    PROVE  /\ DOMAIN proposals' = DOMAIN proposals
           /\ ProposalsAreKept
           /\ ApprovalsAreGiven
           /\ CanExecute(p)
           /\ proposals[p].call.target = target
           /\ proposals'[p].executed
           /\ proposals'[p].call = proposals[p].call
           /\ proposals'[p].approvals = proposals[p].approvals
           /\ \A k \in DOMAIN proposals : k # p => proposals'[k] = proposals[k]
<1>1. proposals[p] \in Proposals
  BY DEF GovernanceTypeOK
<1>2. /\ DOMAIN proposals' = DOMAIN proposals
      /\ proposals'[p] = [proposals[p] EXCEPT !.executed = TRUE]
      /\ \A k \in DOMAIN proposals : k # p => proposals'[k] = proposals[k]
  BY DEF ExecuteProposal, GovernanceTypeOK
<1>3. /\ proposals'[p].executed
      /\ proposals'[p].call = proposals[p].call
      /\ proposals'[p].approvals = proposals[p].approvals
  BY <1>1, <1>2 DEF Proposals
<1>4. CanExecute(p) /\ proposals[p].call.target = target
  BY DEF ExecuteProposal
<1>5. ~proposals[p].executed
  BY <1>4 DEF CanExecute
<1>6. ProposalsAreKept
  <2> SUFFICES ASSUME NEW k \in DOMAIN proposals
               PROVE  /\ proposals'[k] =
                            [proposals[k] EXCEPT
                                !.approvals = proposals'[k].approvals,
                                !.executed = proposals'[k].executed]
                      /\ proposals[k].approvals \subseteq
                             proposals'[k].approvals
                      /\ proposals[k].executed =>
                             proposals'[k] = proposals[k]
    BY <1>2 DEF ProposalsAreKept
  <2>1. CASE k = p
    BY <1>1, <1>2, <1>3, <1>5, <2>1 DEF Proposals
  <2>2. CASE k # p
    BY <1>2, <2>2 DEF GovernanceTypeOK, Proposals
  <2> QED BY <2>1, <2>2
<1>7. ApprovalsAreGiven
  BY <1>2, <1>3 DEF ApprovalsAreGiven
<1> QED BY <1>2, <1>3, <1>4, <1>6, <1>7

(* Every step, in a state in which nothing precedes initialize.            *)
LEMMA GovernanceStepFacts ==
    ASSUME GovernanceTypeOK, NothingBeforeInitialize,
           [GovernanceNext]_governanceVars
    PROVE  GovernanceStep
<1>1. now \in Nat
  BY DEF GovernanceTypeOK, HostTypeOK
<1>2. ASSUME UNCHANGED <<admin, govVars>>, now' >= now
      PROVE  GovernanceStep
  <2>1. ProposalsAreKept
    BY <1>2 DEF ProposalsAreKept, govVars, GovernanceTypeOK, Proposals
  <2> QED
    BY <1>2, <2>1 DEF GovernanceStep, govVars, RolesGrow, NewProposalsAreFresh,
                      ApprovalsAreGiven, ExecutionsAreDue, NewRolesHaveACause
<1>3. CASE AdvanceClock /\ UNCHANGED govVars
  BY <1>1, <1>2, <1>3 DEF AdvanceClock
<1>4. CASE UNCHANGED governanceVars
  BY <1>1, <1>2, <1>4 DEF governanceVars, hostVars
<1>5. ASSUME NEW a \in Addresses, GovernanceInitialize(a) PROVE GovernanceStep
  <2>1. /\ DOMAIN proposals = {} /\ \A u \in Addresses : roles[u] = {}
        /\ admin' = a /\ admin = NoAddress /\ now' = now
    BY <1>5 DEF GovernanceInitialize, ClaimAdmin, NothingBeforeInitialize
  <2>2. /\ DOMAIN proposals' = {}
        /\ \A u \in Addresses :
               roles'[u] = IF u = a THEN {"SuperAdmin"} ELSE {}
    BY <1>5 DEF GovernanceInitialize, SeedRoles
  <2>3. RolesGrow /\ NewRolesHaveACause
    BY <2>1, <2>2 DEF RolesGrow, NewRolesHaveACause
  <2> QED
    BY <1>1, <2>1, <2>2, <2>3
       DEF GovernanceStep, ProposalsAreKept, NewProposalsAreFresh,
           ApprovalsAreGiven, ExecutionsAreDue
<1>6. CASE ProposeStep
  BY <1>6, ProposeFacts
<1>7. CASE ApproveStep
  BY <1>7, ApproveFacts DEF ApproveStep
<1>8. ASSUME NEW u \in Addresses, NEW p \in DOMAIN proposals,
             ExecuteRoleGrant(u, p)
      PROVE  GovernanceStep
  <2> DEFINE call == proposals[p].call
  <2>1. ExecuteProposal(u, p, "grant_role")
    BY <1>8 DEF ExecuteRoleGrant
  <2>2. call \in RoleGrants
    BY <2>1 DEF ExecuteProposal, GovernanceTypeOK, Proposals, Calls, RoleGrants,
                BountyVerifications, EmergencyVerifications
  <2>3. /\ call.user \in Addresses
        /\ call = [target |-> "grant_role", user |-> call.user,
                   role |-> call.role]
    BY <2>2 DEF RoleGrants
  <2>4. \A w \in Addresses :
            roles'[w] = IF w = call.user THEN roles[w] \cup {call.role}
                                         ELSE roles[w]
    BY <1>8 DEF ExecuteRoleGrant, GovernanceTypeOK
  <2> HIDE DEF call
  <2>5. RolesGrow
    BY <2>4 DEF RolesGrow
  <2>6. proposals'[p].executed /\ proposals'[p].call = call
        /\ DOMAIN proposals' = DOMAIN proposals
    BY <2>1, ExecuteFacts DEF call
  <2>7. NewRolesHaveACause
    <3> SUFFICES ASSUME NEW w \in Addresses, NEW role \in roles'[w] \ roles[w]
                 PROVE  call = [target |-> "grant_role", user |-> w,
                                role |-> role]
      BY <2>6 DEF NewRolesHaveACause
    <3>1. w = call.user /\ role = call.role
      BY <2>4
    <3> QED BY <2>3, <3>1
  <2>8. ExecutionsAreDue
    BY <2>1, ExecuteFacts DEF ExecutionsAreDue
  <2> QED
    BY <1>1, <1>8, <2>1, <2>5, <2>7, <2>8, ExecuteFacts
       DEF GovernanceStep, ExecuteRoleGrant, hostVars, NewProposalsAreFresh
<1>9. ASSUME NEW u \in Addresses, NEW p \in DOMAIN proposals,
             ExecuteDismissal(u, p)
      PROVE  GovernanceStep
  <2>1. ExecuteProposal(u, p, "verify_emergency_vulnerability")
    BY <1>9 DEF ExecuteDismissal
  <2>2. roles' = roles /\ now' = now /\ admin' = admin
    BY <1>9 DEF ExecuteDismissal, hostVars
  <2>3. ExecutionsAreDue
    BY <2>1, ExecuteFacts DEF ExecutionsAreDue
  <2> QED
    BY <1>1, <2>1, <2>2, <2>3, ExecuteFacts
       DEF GovernanceStep, RolesGrow, NewRolesHaveACause, NewProposalsAreFresh
<1> QED
  BY <1>3, <1>4, <1>5, <1>6, <1>7, <1>8, <1>9 DEF GovernanceNext, ExecuteStep
-----------------------------------------------------------------------------
(* The inductive invariant: the properties of Governance and the two facts *)
(* they lean on.                                                           *)
GovInv ==
    /\ GovernanceTypeOK
    /\ NothingBeforeInitialize
    /\ FloorsAreAsked
    /\ ExecutedWithQuorum
    /\ RolesComeFromGrants
    /\ ApproversHoldRoles

(* It holds before the first call.                                         *)
LEMMA InitGovInv == GovernanceInit => GovInv
<1> SUFFICES ASSUME GovernanceInit PROVE GovInv
  OBVIOUS
<1>1. DOMAIN proposals = {} /\ \A u \in Addresses : roles[u] = {}
  BY DEF GovernanceInit, GovInit
<1> QED
  BY <1>1, GovernanceInitTypeOK
     DEF GovInv, NothingBeforeInitialize, FloorsAreAsked, ExecutedWithQuorum,
         RolesComeFromGrants, ApproversHoldRoles

(* Every successful call keeps it.                                         *)
LEMMA NextGovInv == GovInv /\ [GovernanceNext]_governanceVars => GovInv'
<1> SUFFICES ASSUME GovInv, [GovernanceNext]_governanceVars PROVE GovInv'
  OBVIOUS
<1>1. GovernanceTypeOK /\ GovernanceTypeOK'
  BY GovernanceNextTypeOK DEF GovInv
<1>2. GovernanceStep
  BY GovernanceStepFacts DEF GovInv
<1>3. \A p \in DOMAIN proposals :
          /\ p \in DOMAIN proposals'
          /\ proposals'[p].call = proposals[p].call
          /\ proposals'[p].required = proposals[p].required
          /\ proposals'[p].createdAt = proposals[p].createdAt
          /\ proposals'[p].delay = proposals[p].delay
          /\ proposals[p].executed => proposals'[p] = proposals[p]
  <2> SUFFICES ASSUME NEW p \in DOMAIN proposals
               PROVE  /\ p \in DOMAIN proposals'
                      /\ proposals'[p].call = proposals[p].call
                      /\ proposals'[p].required = proposals[p].required
                      /\ proposals'[p].createdAt = proposals[p].createdAt
                      /\ proposals'[p].delay = proposals[p].delay
                      /\ proposals[p].executed => proposals'[p] = proposals[p]
    OBVIOUS
  <2>1. proposals[p] \in Proposals
    BY <1>1 DEF GovernanceTypeOK
  <2>2. /\ p \in DOMAIN proposals'
        /\ proposals'[p] =
               [proposals[p] EXCEPT !.approvals = proposals'[p].approvals,
                                    !.executed = proposals'[p].executed]
        /\ proposals[p].executed => proposals'[p] = proposals[p]
    BY <1>2 DEF GovernanceStep, ProposalsAreKept
  <2> QED BY <2>1, <2>2 DEF Proposals
<1>4. /\ now \in Nat /\ now' \in Nat /\ now' >= now
  BY <1>1, <1>2 DEF GovernanceTypeOK, HostTypeOK, GovernanceStep
<1>5. NothingBeforeInitialize'
  <2> SUFFICES ASSUME admin' = NoAddress
               PROVE  /\ DOMAIN proposals' = {}
                      /\ \A u \in Addresses : roles'[u] = {}
    BY DEF NothingBeforeInitialize
  <2>1. admin = NoAddress
    BY <1>2 DEF GovernanceStep
  <2>2. DOMAIN proposals = {} /\ \A u \in Addresses : roles[u] = {}
    BY <2>1 DEF GovInv, NothingBeforeInitialize
  <2>3. DOMAIN proposals' = {}
    BY <1>2, <2>2 DEF GovernanceStep, NewProposalsAreFresh
  <2>4. \A u \in Addresses : roles'[u] = {}
    BY <1>2, <2>2, <2>3, HostAssumption DEF GovernanceStep, NewRolesHaveACause
  <2> QED BY <2>3, <2>4
<1>6. FloorsAreAsked'
  BY <1>2, <1>3 DEF GovInv, FloorsAreAsked, GovernanceStep, NewProposalsAreFresh,
                    ApprovalFloor, DelayFloor
<1>7. ExecutedWithQuorum'
  <2> SUFFICES ASSUME NEW p \in DOMAIN proposals', proposals'[p].executed
               PROVE  /\ Cardinality(proposals'[p].approvals)
                             >= proposals'[p].required
                      /\ now' >= proposals'[p].createdAt + proposals'[p].delay
    BY <1>6 DEF ExecutedWithQuorum, FloorsAreAsked, ApprovalFloor, DelayFloor
  <2>1. p \in DOMAIN proposals
    BY <1>2 DEF GovernanceStep, NewProposalsAreFresh
  <2>2. /\ proposals[p].createdAt \in Nat /\ proposals[p].delay \in Nat
    BY <1>1, <2>1 DEF GovernanceTypeOK, Proposals
  <2>3. /\ Cardinality(proposals'[p].approvals) >= proposals[p].required
        /\ now >= proposals[p].createdAt + proposals[p].delay
    <3>1. CASE proposals[p].executed
      BY <1>3, <2>1, <3>1 DEF GovInv, ExecutedWithQuorum
    <3>2. CASE ~proposals[p].executed
      <4>1. CanExecute(p) /\ proposals'[p].approvals = proposals[p].approvals
        BY <1>2, <2>1, <3>2 DEF GovernanceStep, ExecutionsAreDue
      <4> QED BY <4>1 DEF CanExecute
    <3> QED BY <3>1, <3>2
  <2> QED BY <1>3, <1>4, <2>1, <2>2, <2>3
<1>8. RolesComeFromGrants'
  <2> SUFFICES ASSUME NEW u \in Addresses, NEW role \in roles'[u]
               PROVE  \/ u = admin' /\ role = "SuperAdmin"
                      \/ ExecutedGrant(u, role)'
    BY DEF RolesComeFromGrants
  <2>1. CASE role \in roles[u]
    <3>1. CASE u = admin /\ role = "SuperAdmin"
      BY <1>2, <3>1, HostAssumption DEF GovernanceStep
    <3>2. CASE ExecutedGrant(u, role)
      BY <1>3, <3>2 DEF ExecutedGrant
    <3> QED BY <2>1, <3>1, <3>2 DEF GovInv, RolesComeFromGrants
  <2>2. CASE role \notin roles[u]
    BY <1>2, <2>2 DEF GovernanceStep, NewRolesHaveACause, ExecutedGrant
  <2> QED BY <2>1, <2>2
<1>9. ApproversHoldRoles'
  <2> SUFFICES ASSUME NEW p \in DOMAIN proposals',
                      NEW u \in proposals'[p].approvals
               PROVE  roles'[u] # {}
    BY DEF ApproversHoldRoles
  <2>1. p \in DOMAIN proposals /\ u \in Addresses
    BY <1>1, <1>2
       DEF GovernanceStep, NewProposalsAreFresh, GovernanceTypeOK, Proposals
  <2>2. roles[u] # {}
    BY <1>2, <2>1 DEF GovInv, ApproversHoldRoles, GovernanceStep, ApprovalsAreGiven
  <2> QED BY <1>2, <2>1, <2>2 DEF GovernanceStep, RolesGrow
<1> QED BY <1>1, <1>5, <1>6, <1>7, <1>8, <1>9 DEF GovInv

(* The invariant of every execution.                                       *)
LEMMA GovInvHolds == GovernanceSpec => []GovInv
BY InitGovInv, NextGovInv, PTL DEF GovernanceSpec

(* No proposal is ever executed below the approvals and the delay of its   *)
(* kind, whatever its proposer asked for.                                  *)
THEOREM QuorumBeforeExecution == GovernanceSpec => []ExecutedWithQuorum
BY GovInvHolds, PTL DEF GovInv

(* Every role is the seed of initialize or comes from an executed grant    *)
(* for that address.                                                       *)
THEOREM RolesMatchGrants == GovernanceSpec => []RolesComeFromGrants
BY GovInvHolds, PTL DEF GovInv

(* Only addresses with a role are counted in a quorum.                     *)
THEOREM QuorumsOfRoleHolders == GovernanceSpec => []ApproversHoldRoles
BY GovInvHolds, PTL DEF GovInv

(* No call undoes a proposal or touches an executed one.                   *)
THEOREM ExecutionIsFinal == GovernanceSpec => DecisionsAreFinal
<1>1. GovInv /\ [GovernanceNext]_governanceVars => [ProposalsAreKept]_governanceVars
  BY GovernanceStepFacts DEF GovInv, GovernanceStep
<1> QED BY <1>1, GovInvHolds, PTL DEF GovernanceSpec, DecisionsAreFinal
-----------------------------------------------------------------------------
(* As built, with two approvals asked of every role grant, the workflow    *)
(* never grants a role: the first step out of the initial state, a second  *)
(* approver, would need the role that is to be granted.                    *)
NoGrantIsExecuted ==
    \A p \in DOMAIN proposals :
        proposals[p].executed => proposals[p].call.target # "grant_role"

(* While no grant is executed only the admin holds a role, and it holds    *)
(* SuperAdmin alone.                                                       *)
LEMMA SeedIsOnlyRole ==
    ASSUME GovInv, NoGrantIsExecuted
    PROVE  /\ OnlyAdminHoldsRoles
           /\ \A u \in Addresses : roles[u] # {} => roles[u] = {"SuperAdmin"}
<1>1. ASSUME NEW u \in Addresses, NEW role \in roles[u]
      PROVE  u = admin /\ role = "SuperAdmin"
  <2>1. ~ExecutedGrant(u, role)
    BY DEF ExecutedGrant, NoGrantIsExecuted
  <2> QED BY <2>1 DEF GovInv, RolesComeFromGrants
<1> QED BY <1>1 DEF OnlyAdminHoldsRoles

(* One holder of roles is one approval, and a grant asks for two.          *)
LEMMA NoGrantReachesQuorum ==
    ASSUME MinRoleApprovals >= 2, GovInv, GovInv',
           [GovernanceNext]_governanceVars, NoGrantIsExecuted
    PROVE  NoGrantIsExecuted'
<1> SUFFICES ASSUME NEW p \in DOMAIN proposals', proposals'[p].executed,
                    proposals'[p].call.target = "grant_role"
             PROVE  FALSE
  BY DEF NoGrantIsExecuted
<1>1. GovernanceStep
  BY GovernanceStepFacts DEF GovInv
<1>2. p \in DOMAIN proposals
  BY <1>1 DEF GovernanceStep, NewProposalsAreFresh
<1>3. proposals'[p].call = proposals[p].call
  <2>1. proposals[p] \in Proposals
    BY <1>2 DEF GovInv, GovernanceTypeOK
  <2> QED BY <1>1, <1>2, <2>1 DEF GovernanceStep, ProposalsAreKept, Proposals
<1>4. ~proposals[p].executed
  BY <1>2, <1>3 DEF NoGrantIsExecuted
<1>5. proposals'[p].approvals = proposals[p].approvals
  BY <1>1, <1>2, <1>4 DEF GovernanceStep, ExecutionsAreDue
<1>6. proposals[p].approvals \subseteq {admin}
  <2> SUFFICES ASSUME NEW u \in proposals[p].approvals PROVE u = admin
    OBVIOUS
  <2>1. u \in Addresses
    BY <1>2 DEF GovInv, GovernanceTypeOK, Proposals
  <2>2. roles[u] # {}
    BY <1>2 DEF GovInv, ApproversHoldRoles
  <2> QED BY <2>1, <2>2, SeedIsOnlyRole DEF OnlyAdminHoldsRoles
<1>7. /\ Cardinality(proposals[p].approvals) \in Nat
      /\ Cardinality(proposals[p].approvals) <= 1
  <2> DEFINE approvals == proposals[p].approvals
  <2>1. IsFiniteSet({admin}) /\ Cardinality({admin}) = 1
    BY FS_Singleton
  <2>2. approvals \subseteq {admin}
    BY <1>6
  <2> HIDE DEF approvals
  <2>3. /\ IsFiniteSet(approvals)
        /\ Cardinality(approvals) <= Cardinality({admin})
    BY <2>1, <2>2, FS_Subset
  <2>4. Cardinality(approvals) \in Nat
    BY <2>3, FS_CardinalityType
  <2>5. Cardinality(approvals) \in Nat /\ Cardinality(approvals) <= 1
    BY <2>1, <2>3, <2>4
  <2> QED BY <2>5 DEF approvals
<1>8. /\ Cardinality(proposals'[p].approvals) >= proposals'[p].required
      /\ proposals'[p].required >= MinRoleApprovals
      /\ proposals'[p].required \in Nat
  BY DEF GovInv, ExecutedWithQuorum, ApprovalFloor, GovernanceTypeOK, Proposals
<1> QED BY <1>5, <1>7, <1>8, GovernanceAssumption

(* Nobody but the admin ever holds a role, for any number of addresses and *)
(* any requests, when a grant needs two approvals.                         *)
THEOREM AdminStaysAlone ==
    MinRoleApprovals >= 2 => (GovernanceSpec => []OnlyAdminHoldsRoles)
<1> SUFFICES ASSUME MinRoleApprovals >= 2
             PROVE  GovernanceSpec => []OnlyAdminHoldsRoles
  OBVIOUS
<1>1. GovernanceInit => NoGrantIsExecuted
  BY DEF GovernanceInit, GovInit, NoGrantIsExecuted
<1>2. GovInv /\ GovInv' /\ [GovernanceNext]_governanceVars /\ NoGrantIsExecuted
          => NoGrantIsExecuted'
  BY NoGrantReachesQuorum
<1>3. GovInv /\ NoGrantIsExecuted => OnlyAdminHoldsRoles
  BY SeedIsOnlyRole
<1> QED BY <1>1, <1>2, <1>3, GovInvHolds, PTL DEF GovernanceSpec
=============================================================================
