------------------------ MODULE VulnerabilityReports ------------------------
(***************************************************************************)
(* The calls of the scanner contract that update a reputation: report and  *)
(* verify a vulnerability, execute a high bounty, confirm an emergency     *)
(* alert.  update_reputation stores a reputation under the symbol "REP_"   *)
(* followed by the address in its {:?} form, and Symbol::short panics on a *)
(* text of more than nine characters.  An address is at least "Address(..)"*)
(* there, eleven characters: the call traps and the host undoes everything *)
(* the transaction wrote.  ScannerContract, which has none of these calls, *)
(* is therefore all the contract does (ScannerProofs, TrapsAddNothing).    *)
(***************************************************************************)
EXTENDS ScannerContract

CONSTANTS
    AddressTextLength,  \* characters of an Address written with {:?}
    HighBounty,         \* 1_000_000: a larger bounty needs a proposal
    PointsPerReport,    \* 10
    EarningsPerPoint,   \* 1_000_000
    MaxReports          \* BOUND on the reports made

VARIABLES
    reports, reportCounter,    \* REPORTS, REPORT_COUNTER
    reputation                 \* the REP_<address> keys that exist

reportVars == <<reports, reportCounter, reputation>>
allVars == <<vars, reportVars>>

Nothing == [key \in {} |-> {}]

PrefixLength == 4      \* "REP_"
ShortSymbolLength == 9
-----------------------------------------------------------------------------
WholeInit ==
    /\ Init
    /\ reports = Nothing
    /\ reportCounter = 0
    /\ reputation = Nothing

(* Symbol::short(&format!("REP_{:?}", researcher)) returns. *)
KeyIsShort == PrefixLength + AddressTextLength <= ShortSymbolLength

(* update_reputation: the key comes first; then every sum is checked. *)
UpdateReputation(researcher, successes, earnings) ==
    LET old == IF researcher \in DOMAIN reputation
               THEN reputation[researcher]
               ELSE [score |-> 0, successes |-> 0, earnings |-> 0]
        s == old.successes + successes
        e == old.earnings + earnings
        score == PointsPerReport * s + e \div EarningsPerPoint
    IN  /\ KeyIsShort
        /\ FitsI128(e)
        /\ score <= MaxU64
        /\ s <= MaxU64
        /\ reputation' = Put(reputation, researcher,
               [score |-> score, successes |-> s, earnings |-> e])

ReportVulnerability(reporter) ==
    /\ reportCounter < MaxReports
    /\ reportCounter' = reportCounter + 1
    /\ reports' = Put(reports, reportCounter + 1,
           [reporter |-> reporter, status |-> "pending", bounty |-> 0])
    /\ UpdateReputation(reporter, 0, 0)
    /\ UNCHANGED vars

(* What verify_vulnerability does once its caller is permitted.  It looks  *)
(* at no status.                                                           *)
RecordVerification(report, bounty) ==
    /\ bounty > 0
    /\ bounty <= HighBounty
    /\ report \in DOMAIN reports
    /\ reports' = [reports EXCEPT ![report].status = "verified",
                                  ![report].bounty = bounty]
    /\ UpdateReputation(reports[report].reporter, 1, bounty)
    /\ UNCHANGED reportCounter

VerifyVulnerability(verifier, report, bounty) ==
    /\ HasPermission(verifier, "VerifyVulnerability")
    /\ RecordVerification(report, bounty)
    /\ UNCHANGED vars

(* The approved call goes through verify_vulnerability itself, with its    *)
(* limit on the bounty.                                                    *)
ExecuteHighBountyVerification(executor, p) ==
    /\ ExecuteProposal(executor, p, "verify_vulnerability")
    /\ RecordVerification(proposals[p].call.report, proposals[p].call.bounty)
    /\ UNCHANGED <<hostVars, roles, proposalCounter, escrowVars, ownVars>>

(* execute_emergency_verification of a proposal that says the alert is     *)
(* real: it opens an escrow with no lock and no signer for the reporter,   *)
(* marks its conditions met, for which the executor needs ManageEscrow,    *)
(* releases it and then updates the reputation.                            *)
ConfirmEmergency(executor, p) ==
    LET id == proposals[p].call.alert
        alert == alerts[id]
        opened == NewEscrow(escrowCounter + 1, executor, alert.reporter,
                            alert.reward, 0, NoSigner)
    IN  /\ ExecuteProposal(executor, p, "verify_emergency_vulnerability")
        /\ proposals[p].call.verified
        /\ id \in DOMAIN alerts
        /\ HasPermission(executor, "ManageEscrow")
        /\ escrowCounter < MaxEscrows
        /\ escrowPool + alert.reward <= MaxI128
        /\ escrowCounter' = escrowCounter + 1
        /\ escrows' = Put(escrows, escrowCounter + 1,
               [opened EXCEPT !.conditionsMet = TRUE, !.status = "released"])
        /\ payouts' = Append(payouts,
               [ escrow |-> escrowCounter + 1, to |-> alert.reporter,
                 amount |-> alert.reward ])
        /\ UpdateReputation(alert.reporter, 1, alert.reward)
        /\ alerts' = [alerts EXCEPT ![id].status = "verified"]
        /\ UNCHANGED <<hostVars, roles, proposalCounter, escrowPool, signed,
                       alertCounter, poolVars, reports, reportCounter>>
-----------------------------------------------------------------------------
(* A call of ScannerContract; initialize also forgets the reports. *)
OtherCall ==
    /\ Next
    /\ reports' = IF admin' = admin THEN reports ELSE Nothing
    /\ UNCHANGED <<reportCounter, reputation>>

ReputationCall ==
    \E u \in Addresses :
        \/ ReportVulnerability(u)
        \/ \E r \in DOMAIN reports, b \in Bounties : VerifyVulnerability(u, r, b)
        \/ \E p \in DOMAIN proposals :
               ExecuteHighBountyVerification(u, p) \/ ConfirmEmergency(u, p)

WholeSpec == WholeInit /\ [][OtherCall \/ ReputationCall]_allVars
-----------------------------------------------------------------------------
(* "Report a new vulnerability" (lib.rs:554): a report with valid texts is *)
(* accepted, whoever makes it.                                             *)
ReportsAreAccepted ==
    reportCounter < MaxReports =>
        \A u \in Addresses : ENABLED ReportVulnerability(u)

(* What the contract keeps of reports, verifications and confirmations.    *)
NothingIsReported ==
    /\ reports = Nothing
    /\ reportCounter = 0
    /\ reputation = Nothing
=============================================================================
