---------------------------- MODULE PromiseProofs ----------------------------
(***************************************************************************)
(* EscrowLedger implements EscrowPromise, for any accounts, keys, amounts, *)
(* locks and bounds: before the first call it shows the initial state of   *)
(* the promise, and every call is one of its steps or leaves it unchanged. *)
(***************************************************************************)
EXTENDS EscrowProofs

(* Before the first call every escrow is absent.                           *)
LEMMA InitKeepsPromise == LedgerInit => Promise!Init
<1> SUFFICES ASSUME LedgerInit PROVE Promise!Init
  OBVIOUS
<1>1. /\ DOMAIN escrows = {} /\ escrowCounter = 0 /\ payouts = <<>>
  BY DEF LedgerInit, EscrowInit
<1>2. Phases = [id \in 1..MaxEscrows |-> "absent"]
  BY <1>1, EscrowAssumption DEF Phases, Phase
<1>3. EscrowTerms = [id \in {} |-> {}]
  BY <1>1 DEF EscrowTerms
<1>4. ConfirmedIds = {} /\ ExpiredIds = {}
  BY <1>1 DEF ConfirmedIds, ExpiredIds
<1> QED BY <1>1, <1>2, <1>3, <1>4 DEF Promise!Init

(* What a new entry shows.                                                 *)
LEMMA NewEntryShows ==
    ASSUME LedgerTypeOK, NEW e \in EscrowEntries, escrowCounter < MaxEscrows,
           escrowCounter' = escrowCounter + 1,
           escrows' = Put(escrows, escrowCounter + 1, e), now' = now
    PROVE  LET id == escrowCounter + 1
           IN  /\ id \in 1..MaxEscrows /\ Phases[id] = "absent"
               /\ Phases' = [Phases EXCEPT ![id] = PhaseOf[e.status]]
               /\ Promise!OpenTerms(id) /\ EscrowTerms'[id] = TermsOf(e)
               /\ ConfirmedIds' = IF e.conditionsMet THEN ConfirmedIds \cup {id}
                                  ELSE ConfirmedIds
               /\ ExpiredIds' = IF Expired(e) THEN ExpiredIds \cup {id}
                                ELSE ExpiredIds
<1> DEFINE id == escrowCounter + 1
<1>1. /\ DOMAIN escrows' = DOMAIN escrows \cup {id}
      /\ id \notin DOMAIN escrows
      /\ escrows'[id] = e
      /\ \A k \in DOMAIN escrows : escrows'[k] = escrows[k]
  BY PutEntry
<1>2. /\ escrowCounter \in Nat /\ MaxEscrows \in Nat /\ id \in 1..MaxEscrows
      /\ DOMAIN escrows \subseteq 1..escrowCounter
  BY EscrowAssumption DEF LedgerTypeOK
<1>3. Phases[id] = "absent"
  BY <1>2 DEF Phases, Phase
<1>4. Phases' = [Phases EXCEPT ![id] = PhaseOf[e.status]]
  <2>1. ASSUME NEW k \in 1..MaxEscrows
        PROVE  Phase(k)' = IF k = id THEN PhaseOf[e.status] ELSE Phase(k)
    BY <1>1, <1>2 DEF Phase
  <2> QED BY <1>2, <2>1 DEF Phases
<1>5. Promise!OpenTerms(id) /\ EscrowTerms'[id] = TermsOf(e)
  <2>1. TermsOf(e) \in Promise!Terms
    BY DEF TermsOf, Promise!Terms, EscrowEntries
  <2> QED BY <1>1, <2>1 DEF EscrowTerms, Promise!OpenTerms, TermsOf
<1>6. ConfirmedIds' = IF e.conditionsMet THEN ConfirmedIds \cup {id}
                      ELSE ConfirmedIds
  BY <1>1 DEF ConfirmedIds
<1>7. ExpiredIds' = IF Expired(e) THEN ExpiredIds \cup {id} ELSE ExpiredIds
  BY <1>1 DEF ExpiredIds, Expired
<1> QED BY <1>2, <1>3, <1>4, <1>5, <1>6, <1>7

(* What rewriting a stored entry shows: its terms and its lock stay.       *)
LEMMA RewrittenEntryShows ==
    ASSUME LedgerTypeOK, NEW id \in DOMAIN escrows, NEW e \in EscrowEntries,
           escrows' = [escrows EXCEPT ![id] = e], SameTerms(escrows[id], e),
           UNCHANGED <<now, escrowCounter>>
    PROVE  /\ id \in 1..MaxEscrows /\ Phases[id] = PhaseOf[escrows[id].status]
           /\ Phases' = [Phases EXCEPT ![id] = PhaseOf[e.status]]
           /\ EscrowTerms' = EscrowTerms
           /\ EscrowTerms[id] = TermsOf(escrows[id])
           /\ ConfirmedIds' = IF e.conditionsMet THEN ConfirmedIds \cup {id}
                              ELSE ConfirmedIds \ {id}
           /\ ExpiredIds' = ExpiredIds
<1>1. /\ DOMAIN escrows' = DOMAIN escrows /\ escrows'[id] = e
      /\ \A k \in DOMAIN escrows : k # id => escrows'[k] = escrows[k]
  BY DEF LedgerTypeOK
<1>2. /\ escrowCounter \in Nat /\ MaxEscrows \in Nat /\ id \in 1..MaxEscrows
      /\ DOMAIN escrows \subseteq 1..escrowCounter
      /\ id <= escrowCounter
  BY EscrowAssumption DEF LedgerTypeOK
<1>3. Phases[id] = PhaseOf[escrows[id].status]
  BY <1>2 DEF Phases, Phase
<1>4. Phases' = [Phases EXCEPT ![id] = PhaseOf[e.status]]
  <2>1. ASSUME NEW k \in 1..MaxEscrows
        PROVE  Phase(k)' = IF k = id THEN PhaseOf[e.status] ELSE Phase(k)
    BY <1>1, <1>2 DEF Phase
  <2> QED BY <1>2, <2>1 DEF Phases
<1>5. EscrowTerms' = EscrowTerms /\ EscrowTerms[id] = TermsOf(escrows[id])
  BY <1>1 DEF EscrowTerms, TermsOf, SameTerms
<1>6. ConfirmedIds' = IF e.conditionsMet THEN ConfirmedIds \cup {id}
                      ELSE ConfirmedIds \ {id}
  BY <1>1 DEF ConfirmedIds
<1>7. ExpiredIds' = ExpiredIds
  BY <1>1 DEF ExpiredIds, Expired, SameTerms
<1> QED BY <1>2, <1>3, <1>4, <1>5, <1>6, <1>7
-----------------------------------------------------------------------------
(* create_escrow opens an escrow.                                          *)
LEMMA CreateOpens ==
    ASSUME LedgerTypeOK, NEW d \in Addresses, NEW b \in Addresses,
           NEW amount \in Amounts, NEW lock \in LockDurations,
           NEW s \in Signers \cup {NoSigner},
           CreateEscrow(d, b, amount, lock, s)
    PROVE  Promise!Next
<1> DEFINE id == escrowCounter + 1
           e == NewEscrow(id, d, b, amount, lock, s)
<1>1. /\ id \in Nat /\ amount \in Nat \ {0} /\ lock \in Nat
  BY EscrowAssumption DEF CreateEscrow, LedgerTypeOK
<1>2. e \in EscrowEntries
  BY <1>1, NewEscrowType
<1>3. e.status = "pending" /\ ~e.conditionsMet
  BY DEF NewEscrow
<1>4. /\ escrowCounter < MaxEscrows /\ escrowCounter' = id
      /\ escrows' = Put(escrows, id, e) /\ UNCHANGED <<now, payouts>>
  BY DEF CreateEscrow, hostVars
<1> HIDE DEF e
<1>5. /\ id \in 1..MaxEscrows /\ Phases[id] = "absent"
      /\ Phases' = [Phases EXCEPT ![id] = PhaseOf[e.status]]
      /\ Promise!OpenTerms(id)
      /\ ConfirmedIds' = IF e.conditionsMet THEN ConfirmedIds \cup {id}
                         ELSE ConfirmedIds
      /\ ExpiredIds' = IF Expired(e) THEN ExpiredIds \cup {id}
                       ELSE ExpiredIds
  BY <1>2, <1>4, NewEntryShows
<1>6. Promise!Open(id)
  BY <1>3, <1>4, <1>5 DEF Promise!Open, PhaseOf
<1> QED BY <1>5, <1>6 DEF Promise!Next

(* mark_escrow_conditions_met confirms, whatever the phase.                *)
LEMMA MarkConfirms ==
    ASSUME LedgerTypeOK, NEW id \in DOMAIN escrows, MarkConditionsMet(id)
    PROVE  Promise!Next
<1> DEFINE e == [escrows[id] EXCEPT !.conditionsMet = TRUE]
<1>1. escrows[id] \in EscrowEntries
  BY DEF LedgerTypeOK
<1>2. /\ e \in EscrowEntries /\ SameTerms(escrows[id], e)
      /\ e.status = escrows[id].status /\ e.conditionsMet
  BY <1>1 DEF EscrowEntries, SameTerms
<1>3. /\ escrows' = [escrows EXCEPT ![id] = e]
      /\ UNCHANGED <<now, escrowCounter, payouts>>
  BY DEF MarkConditionsMet, hostVars
<1> HIDE DEF e
<1>4. /\ id \in 1..MaxEscrows /\ Phases[id] = PhaseOf[escrows[id].status]
      /\ Phases' = [Phases EXCEPT ![id] = PhaseOf[e.status]]
      /\ EscrowTerms' = EscrowTerms
      /\ ConfirmedIds' = IF e.conditionsMet THEN ConfirmedIds \cup {id}
                         ELSE ConfirmedIds \ {id}
      /\ ExpiredIds' = ExpiredIds
  BY <1>2, <1>3, RewrittenEntryShows
<1>5. Phases' = Phases
  BY <1>2, <1>4 DEF Phases
<1>6. Phases[id] \in {"held", "returned", "paid"}
  BY <1>1, <1>4 DEF PhaseOf, EscrowEntries
<1>7. Promise!Confirm(id)
  BY <1>2, <1>3, <1>4, <1>5, <1>6 DEF Promise!Confirm
<1> QED BY <1>4, <1>7 DEF Promise!Next

(* refund_escrow returns an escrow, and may do so again.                   *)
LEMMA RefundReturns ==
    ASSUME LedgerTypeOK, NEW id \in DOMAIN escrows, NEW u,
           RefundEscrow(id, u)
    PROVE  Promise!Next
<1> DEFINE e == [escrows[id] EXCEPT !.status = "refunded"]
<1>1. escrows[id] \in EscrowEntries
  BY DEF LedgerTypeOK
<1>2. /\ e \in EscrowEntries /\ SameTerms(escrows[id], e)
      /\ e.status = "refunded"
      /\ e.conditionsMet = escrows[id].conditionsMet
  BY <1>1 DEF EscrowEntries, SameTerms
<1>3. /\ escrows' = [escrows EXCEPT ![id] = e]
      /\ UNCHANGED <<now, escrowCounter>>
      /\ payouts' = Append(payouts,
             [ escrow |-> id, to |-> escrows[id].depositor,
               amount |-> escrows[id].amount ])
      /\ escrows[id].status # "released" /\ Expired(escrows[id])
      /\ ~escrows[id].conditionsMet
  BY DEF RefundEscrow, MayRefund, PayOut, hostVars
<1> HIDE DEF e
<1>4. /\ id \in 1..MaxEscrows /\ Phases[id] = PhaseOf[escrows[id].status]
      /\ Phases' = [Phases EXCEPT ![id] = PhaseOf[e.status]]
      /\ EscrowTerms' = EscrowTerms /\ EscrowTerms[id] = TermsOf(escrows[id])
      /\ ConfirmedIds' = IF e.conditionsMet THEN ConfirmedIds \cup {id}
                         ELSE ConfirmedIds \ {id}
      /\ ExpiredIds' = ExpiredIds
  BY <1>2, <1>3, RewrittenEntryShows
<1>5. Phases[id] \in {"held", "returned"}
  BY <1>1, <1>3, <1>4 DEF PhaseOf, EscrowEntries
<1>6. id \in ExpiredIds \ ConfirmedIds /\ ConfirmedIds' = ConfirmedIds
  BY <1>2, <1>3, <1>4 DEF ExpiredIds, ConfirmedIds
<1>7. Promise!Return(id)
  BY <1>2, <1>3, <1>4, <1>5, <1>6
     DEF Promise!Return, Promise!PaidTo, PhaseOf, TermsOf
<1> QED BY <1>4, <1>7 DEF Promise!Next

(* release_escrow pays an escrow, returned before or not.                  *)
LEMMA ReleasePays ==
    ASSUME LedgerTypeOK, LedgerTypeOK', NEW id \in DOMAIN escrows, NEW u,
           NEW sig, ReleaseEscrow(id, u, sig)
    PROVE  Promise!Next
<1> DEFINE stored == IF escrows[id].signer = NoSigner THEN NoSignature ELSE sig
           e == [escrows[id] EXCEPT !.status = "released",
                                    !.signature = stored]
<1>1. escrows[id] \in EscrowEntries
  BY DEF LedgerTypeOK
<1>2. /\ escrows' = [escrows EXCEPT ![id] = e]
      /\ UNCHANGED <<now, escrowCounter>>
      /\ payouts' = Append(payouts,
             [ escrow |-> id, to |-> escrows[id].beneficiary,
               amount |-> escrows[id].amount ])
      /\ escrows[id].status # "released" /\ Unlocked(escrows[id])
  BY DEF ReleaseEscrow, MayRelease, PayOut, hostVars
<1> HIDE DEF stored
<1>3. /\ SameTerms(escrows[id], e) /\ e.status = "released"
      /\ e.conditionsMet = escrows[id].conditionsMet
  BY <1>1 DEF EscrowEntries, SameTerms
<1> HIDE DEF e
<1>4. e \in EscrowEntries
  <2>1. escrows'[id] = e /\ id \in DOMAIN escrows'
    BY <1>2 DEF LedgerTypeOK
  <2> QED BY <2>1 DEF LedgerTypeOK
<1>5. /\ id \in 1..MaxEscrows /\ Phases[id] = PhaseOf[escrows[id].status]
      /\ Phases' = [Phases EXCEPT ![id] = PhaseOf[e.status]]
      /\ EscrowTerms' = EscrowTerms /\ EscrowTerms[id] = TermsOf(escrows[id])
      /\ ConfirmedIds' = IF e.conditionsMet THEN ConfirmedIds \cup {id}
                         ELSE ConfirmedIds \ {id}
      /\ ExpiredIds' = ExpiredIds
  BY <1>2, <1>3, <1>4, RewrittenEntryShows
<1>6. Phases[id] \in {"held", "returned"}
  BY <1>1, <1>2, <1>5 DEF PhaseOf, EscrowEntries
<1>7. id \in ConfirmedIds \cup ExpiredIds /\ ConfirmedIds' = ConfirmedIds
  BY <1>2, <1>3, <1>5 DEF ExpiredIds, ConfirmedIds, Unlocked
<1>8. Promise!Pay(id)
  BY <1>2, <1>3, <1>5, <1>6, <1>7
     DEF Promise!Pay, Promise!PaidTo, PhaseOf, TermsOf
<1> QED BY <1>5, <1>8 DEF Promise!Next

(* initialize forgets what was there before it.                            *)
LEMMA InitializeForgets ==
    ASSUME LedgerTypeOK, NEW a, LedgerInitialize(a)
    PROVE  Promise!Next
<1>1. DOMAIN escrows' = {} /\ UNCHANGED <<now, escrowCounter, payouts>>
  BY DEF LedgerInitialize, ForgetEscrows, ClaimAdmin
<1>2. Phases' = [id \in 1..MaxEscrows |->
                    IF Phases[id] = "absent" THEN "absent" ELSE "forgotten"]
  <2>1. ASSUME NEW id \in 1..MaxEscrows
        PROVE  Phase(id)' = IF Phases[id] = "absent"
                            THEN "absent" ELSE "forgotten"
    <3>1. CASE id > escrowCounter
      BY <1>1, <3>1 DEF Phase, Phases
    <3>2. CASE ~(id > escrowCounter)
      <4>1. Phase(id) # "absent"
        BY <3>2 DEF Phase, PhaseOf, LedgerTypeOK, EscrowEntries
      <4> QED BY <1>1, <3>2, <4>1 DEF Phase, Phases
    <3> QED BY <3>1, <3>2
  <2> QED BY <2>1 DEF Phases
<1>3. EscrowTerms' = [id \in {} |-> {}]
  BY <1>1 DEF EscrowTerms
<1>4. ConfirmedIds' = {} /\ ExpiredIds' = {}
  BY <1>1 DEF ConfirmedIds, ExpiredIds
<1>5. Promise!Forget
  BY <1>1, <1>2, <1>3, <1>4 DEF Promise!Forget
<1> QED BY <1>5 DEF Promise!Next

(* As time passes locks expire, for good.                                  *)
LEMMA TimeExpires ==
    ASSUME LedgerTypeOK, AdvanceClock, UNCHANGED escrowVars
    PROVE  Promise!Next
<1>1. /\ UNCHANGED <<escrows, escrowCounter, payouts>>
      /\ now \in Nat /\ now' = now + 1
  BY DEF AdvanceClock, escrowVars, LedgerTypeOK, HostTypeOK
<1>2. UNCHANGED <<Phases, EscrowTerms, ConfirmedIds>>
  BY <1>1 DEF Phases, Phase, EscrowTerms, ConfirmedIds
<1>3. ExpiredIds \subseteq ExpiredIds' /\ ExpiredIds' \subseteq DOMAIN EscrowTerms
  <2>1. \A id \in DOMAIN escrows : escrows[id].lockUntil \in Nat
    BY DEF LedgerTypeOK, EscrowEntries
  <2> QED BY <1>1, <2>1 DEF ExpiredIds, Expired, EscrowTerms
<1>4. Promise!Expire
  BY <1>1, <1>2, <1>3 DEF Promise!Expire
<1> QED BY <1>4 DEF Promise!Next

(* What shows nothing of the promise leaves it unchanged.                  *)
LEMMA NothingShows ==
    ASSUME UNCHANGED <<now, escrows, escrowCounter, payouts>>
    PROVE  UNCHANGED Promise!vars
BY DEF Promise!vars, Phases, Phase, EscrowTerms, TermsOf, ConfirmedIds,
       ExpiredIds, Expired

(* Every call of the ledger is a step of the promise.                      *)
LEMMA NextKeepsPromise ==
    ASSUME LedgerTypeOK, [LedgerNext]_ledgerVars
    PROVE  [Promise!Next]_Promise!vars
<1>1. CASE AdvanceClock /\ UNCHANGED escrowVars
  BY <1>1, TimeExpires
<1>2. ASSUME NEW a \in Addresses, LedgerInitialize(a) PROVE Promise!Next
  BY <1>2, InitializeForgets
<1>3. CASE CreateStep
  BY <1>3, CreateOpens DEF CreateStep
<1>4. ASSUME NEW id \in DOMAIN escrows, MarkConditionsMet(id)
      PROVE  Promise!Next
  BY <1>4, MarkConfirms
<1>5. CASE SettleStep
  <2>1. LedgerTypeOK'
    BY LedgerStepFacts
  <2> QED BY <1>5, <2>1, RefundReturns, ReleasePays DEF SettleStep
<1>6. ASSUME NEW s \in Signers, NEW id \in DOMAIN escrows, Sign(s, id)
      PROVE  UNCHANGED Promise!vars
  BY <1>6, NothingShows DEF Sign, hostVars
<1>7. CASE UNCHANGED ledgerVars
  BY <1>7, NothingShows DEF ledgerVars, escrowVars, hostVars
<1> QED BY <1>1, <1>2, <1>3, <1>4, <1>5, <1>6, <1>7 DEF LedgerNext

(* The ledger implements its promise: a beneficiary is paid at most once   *)
(* and finally, a depositor only after the lock and while the conditions   *)
(* are not met, each the amount that was deposited.                        *)
THEOREM LedgerKeepsPromise == LedgerSpec => KeepsPromise
<1>1. LedgerTypeOK /\ [LedgerNext]_ledgerVars => [Promise!Next]_Promise!vars
  BY NextKeepsPromise
<1> QED BY <1>1, InitKeepsPromise, LedgerTypeCorrect, PTL
        DEF LedgerSpec, KeepsPromise, Promise!Spec
=============================================================================
