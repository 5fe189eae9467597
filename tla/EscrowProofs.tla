---------------------------- MODULE EscrowProofs ----------------------------
(***************************************************************************)
(* Proofs about EscrowLedger, for any accounts, keys, amounts, locks and   *)
(* bounds.                                                                 *)
(***************************************************************************)
EXTENDS EscrowLedger, TLAPS

(* The terms of an entry, which no call changes.                           *)
SameTerms(e, f) ==
    /\ f.depositor = e.depositor /\ f.beneficiary = e.beneficiary
    /\ f.amount = e.amount /\ f.lockUntil = e.lockUntil
    /\ f.signer = e.signer /\ f.nonce = e.nonce

(* What a call may make of an entry.                                       *)
Settles(id, e, f) ==
    \/ f.status = e.status /\ f.signature = e.signature
    \/ /\ f.status = "refunded" /\ f.signature = e.signature
       /\ e.status # "released" /\ Expired(e)
    \/ /\ f.status = "released" /\ Unlocked(e)
       /\ IF e.signer = NoSigner
          THEN f.signature = NoSignature
          ELSE /\ f.signature \in signed
               /\ f.signature = [signer |-> e.signer,
                                 message |-> ReleaseMessage(id, e)]

EntryChange(id, e, f) ==
    /\ SameTerms(e, f)
    /\ e.conditionsMet => f.conditionsMet
    /\ Settles(id, e, f)

(* A new entry is pending.                                                 *)
FreshEntry(e) == e.signature = NoSignature /\ e.status = "pending"

EntriesChange ==
    \A id \in DOMAIN escrows' :
        IF id \in DOMAIN escrows
        THEN EntryChange(id, escrows[id], escrows'[id])
        ELSE id = escrowCounter + 1 /\ FreshEntry(escrows'[id])

SignaturesAreMade ==
    \A sig \in signed' \ signed :
        \E id \in DOMAIN escrows :
            sig.message = ReleaseMessage(id, escrows[id])

(* What one step does to the entries and the signatures.                   *)
LedgerStep ==
    /\ now' >= now
    /\ escrowCounter' >= escrowCounter
    /\ signed \subseteq signed'
    /\ EntriesChange
    /\ SignaturesAreMade

(* Types of what the calls build.                                          *)
LEMMA NewEscrowType ==
    ASSUME LedgerTypeOK, NEW id \in Nat, NEW depositor \in Addresses,
           NEW beneficiary \in Addresses, NEW amount \in Nat \ {0},
           NEW lock \in Nat, NEW signer \in Signers \cup {NoSigner}
    PROVE  LET e == NewEscrow(id, depositor, beneficiary, amount, lock, signer)
           IN  e \in EscrowEntries /\ FreshEntry(e) /\ e.amount = amount
<1>1. now \in Nat /\ now + lock \in Nat
  BY DEF LedgerTypeOK, HostTypeOK
<1>2. Nonce(beneficiary, id) \in Nonces
  BY <1>1 DEF Nonce, Nonces
<1> QED BY <1>1, <1>2 DEF NewEscrow, EscrowEntries, FreshEntry

(* A release message is one.                                               *)
LEMMA ReleaseMessageType ==
    ASSUME NEW id \in Nat, NEW e \in EscrowEntries
    PROVE  ReleaseMessage(id, e) \in ReleaseMessages
BY DEF ReleaseMessage, ReleaseMessages, EscrowEntries

(* The state before the first call has the types.                          *)
LEMMA LedgerInitTypeOK == LedgerInit => LedgerTypeOK
<1> SUFFICES ASSUME LedgerInit PROVE LedgerTypeOK
  OBVIOUS
<1>1. payouts \in Seq(Payouts)
  BY DEF LedgerInit, EscrowInit
<1>2. FitsI128(escrowPool) /\ escrowPool \in Int
  BY HostAssumption DEF LedgerInit, EscrowInit, FitsI128
<1> QED
  BY <1>1, <1>2, HostAssumption, EscrowAssumption
     DEF LedgerInit, HostInit, EscrowInit, LedgerTypeOK, HostTypeOK

(* A new entry under the next id.                                          *)
LEMMA PutEntry ==
    ASSUME LedgerTypeOK, NEW e \in EscrowEntries, escrowCounter < MaxEscrows,
           escrowCounter' = escrowCounter + 1,
           escrows' = Put(escrows, escrowCounter + 1, e)
    PROVE  /\ escrows' \in [DOMAIN escrows' -> EscrowEntries]
           /\ DOMAIN escrows' = DOMAIN escrows \cup {escrowCounter + 1}
           /\ escrowCounter + 1 \notin DOMAIN escrows
           /\ escrows'[escrowCounter + 1] = e
           /\ \A id \in DOMAIN escrows : escrows'[id] = escrows[id]
           /\ escrowCounter' \in 0..MaxEscrows
           /\ DOMAIN escrows' \subseteq 1..escrowCounter'
BY EscrowAssumption DEF Put, LedgerTypeOK

(* A payout keeps the pool in range and the event list well-formed.        *)
LEMMA PayOutType ==
    ASSUME LedgerTypeOK, NEW id \in Nat, NEW recipient \in Addresses,
           NEW amount \in Nat, PayOut(id, recipient, amount)
    PROVE  /\ payouts' \in Seq(Payouts)
           /\ FitsI128(escrowPool') /\ escrowPool' \in Int
<1>1. [escrow |-> id, to |-> recipient, amount |-> amount] \in Payouts
  BY DEF Payouts
<1>2. payouts' \in Seq(Payouts)
  BY <1>1 DEF PayOut, LedgerTypeOK
<1>3. escrowPool' = escrowPool - amount /\ FitsI128(escrowPool - amount)
  BY DEF PayOut
<1> QED BY <1>2, <1>3, HostAssumption DEF LedgerTypeOK, FitsI128
-----------------------------------------------------------------------------
(* What each call that creates an entry does.                              *)
LEMMA CreateFacts ==
    ASSUME LedgerTypeOK, NEW d \in Addresses, NEW b \in Addresses,
           NEW amount \in Amounts, NEW lock \in LockDurations,
           NEW s \in Signers \cup {NoSigner},
           CreateEscrow(d, b, amount, lock, s)
    PROVE  LedgerTypeOK' /\ LedgerStep
<1> DEFINE id == escrowCounter + 1
           e == NewEscrow(id, d, b, amount, lock, s)
<1>1. /\ id \in Nat /\ amount \in Nat \ {0} /\ lock \in Nat
      /\ escrowCounter \in Nat /\ now \in Nat
  BY EscrowAssumption, HostAssumption DEF CreateEscrow, LedgerTypeOK, HostTypeOK
<1>2. e \in EscrowEntries /\ FreshEntry(e)
  BY <1>1, NewEscrowType
<1>3. /\ escrowCounter < MaxEscrows /\ escrowCounter' = id
      /\ escrows' = Put(escrows, id, e)
      /\ escrowPool' = escrowPool + amount /\ escrowPool + amount <= MaxI128
      /\ UNCHANGED <<now, admin, payouts, signed>>
  BY DEF CreateEscrow, hostVars
<1> HIDE DEF e
<1>4. /\ escrows' \in [DOMAIN escrows' -> EscrowEntries]
      /\ DOMAIN escrows' = DOMAIN escrows \cup {id}
      /\ escrows'[id] = e
      /\ \A k \in DOMAIN escrows : escrows'[k] = escrows[k]
      /\ escrowCounter' \in 0..MaxEscrows
      /\ DOMAIN escrows' \subseteq 1..escrowCounter'
  BY <1>2, <1>3, PutEntry
<1>5. FitsI128(escrowPool') /\ escrowPool' \in Int
  BY <1>1, <1>3, HostAssumption DEF LedgerTypeOK, FitsI128
<1>6. LedgerTypeOK'
  BY <1>3, <1>4, <1>5 DEF LedgerTypeOK, HostTypeOK
<1>7. EntriesChange
  BY <1>2, <1>4 DEF EntriesChange, EntryChange, SameTerms, Settles
<1> QED BY <1>1, <1>3, <1>6, <1>7 DEF LedgerStep, SignaturesAreMade

(* Rewriting one stored entry without touching the counter.                *)
LEMMA RewriteFacts ==
    ASSUME LedgerTypeOK, NEW id \in DOMAIN escrows, NEW e \in EscrowEntries,
           escrows' = [escrows EXCEPT ![id] = e],
           EntryChange(id, escrows[id], e),
           UNCHANGED <<now, admin, escrowCounter, signed>>
    PROVE  /\ escrows' \in [DOMAIN escrows' -> EscrowEntries]
           /\ DOMAIN escrows' = DOMAIN escrows
           /\ LedgerStep
<1>1. /\ escrows' \in [DOMAIN escrows' -> EscrowEntries]
      /\ DOMAIN escrows' = DOMAIN escrows
      /\ escrows'[id] = e
      /\ \A k \in DOMAIN escrows : k # id => escrows'[k] = escrows[k]
  BY DEF LedgerTypeOK
<1>2. EntriesChange
  BY <1>1 DEF EntriesChange, EntryChange, SameTerms, Settles
<1>3. now \in Nat /\ escrowCounter \in Nat
  BY DEF LedgerTypeOK, HostTypeOK
<1> QED BY <1>1, <1>2, <1>3 DEF LedgerStep, SignaturesAreMade

(* Marking an escrow's conditions met changes that flag of it only.        *)
LEMMA MarkFacts ==
    ASSUME LedgerTypeOK, NEW id \in DOMAIN escrows, MarkConditionsMet(id)
    PROVE  LedgerTypeOK' /\ LedgerStep
<1> DEFINE e == [escrows[id] EXCEPT !.conditionsMet = TRUE]
<1>1. escrows[id] \in EscrowEntries
  BY DEF LedgerTypeOK
<1>2. e \in EscrowEntries /\ EntryChange(id, escrows[id], e)
  BY <1>1 DEF EscrowEntries, EntryChange, SameTerms, Settles
<1>3. /\ escrows' = [escrows EXCEPT ![id] = e]
      /\ UNCHANGED <<now, admin, escrowCounter, signed, escrowPool, payouts>>
  BY DEF MarkConditionsMet, hostVars
<1> HIDE DEF e
<1>4. /\ escrows' \in [DOMAIN escrows' -> EscrowEntries]
      /\ DOMAIN escrows' = DOMAIN escrows
      /\ LedgerStep
  BY <1>2, <1>3, RewriteFacts
<1> QED BY <1>3, <1>4 DEF LedgerTypeOK, HostTypeOK, FitsI128

(* A refund settles one escrow whose lock has passed.                      *)
LEMMA RefundFacts ==
    ASSUME LedgerTypeOK, NEW id \in DOMAIN escrows, NEW u \in Addresses,
           RefundEscrow(id, u)
    PROVE  LedgerTypeOK' /\ LedgerStep
<1> DEFINE e == [escrows[id] EXCEPT !.status = "refunded"]
<1>1. escrows[id] \in EscrowEntries
  BY DEF LedgerTypeOK
<1>2. escrows[id].status # "released" /\ Expired(escrows[id])
  BY DEF RefundEscrow, MayRefund
<1>3. e \in EscrowEntries /\ EntryChange(id, escrows[id], e)
  BY <1>1, <1>2 DEF EscrowEntries, EntryChange, SameTerms, Settles
<1>4. /\ escrows' = [escrows EXCEPT ![id] = e]
      /\ PayOut(id, escrows[id].depositor, escrows[id].amount)
      /\ UNCHANGED <<now, admin, escrowCounter, signed>>
  BY DEF RefundEscrow, hostVars
<1>5. /\ id \in Nat /\ escrows[id].depositor \in Addresses
      /\ escrows[id].amount \in Nat
  BY <1>1 DEF LedgerTypeOK, EscrowEntries
<1> HIDE DEF e
<1>6. /\ escrows' \in [DOMAIN escrows' -> EscrowEntries]
      /\ DOMAIN escrows' = DOMAIN escrows
      /\ LedgerStep
  BY <1>3, <1>4, RewriteFacts
<1>7. /\ payouts' \in Seq(Payouts)
      /\ FitsI128(escrowPool') /\ escrowPool' \in Int
  BY <1>4, <1>5, PayOutType
<1> QED BY <1>4, <1>6, <1>7 DEF LedgerTypeOK, HostTypeOK

(* A release settles one unlocked escrow and stores the signature it was   *)
(* given if the escrow names a signer.                                     *)
LEMMA ReleaseFacts ==
    ASSUME LedgerTypeOK, NEW id \in DOMAIN escrows, NEW u \in Addresses,
           NEW sig \in signed \cup {NoSignature},
           ReleaseEscrow(id, u, sig)
    PROVE  LedgerTypeOK' /\ LedgerStep
<1> DEFINE stored == IF escrows[id].signer = NoSigner THEN NoSignature ELSE sig
           e == [escrows[id] EXCEPT !.status = "released",
                                    !.signature = stored]
<1>1. escrows[id] \in EscrowEntries /\ id \in Nat
  BY DEF LedgerTypeOK
<1>2. Unlocked(escrows[id]) /\ SignatureAccepted(id, escrows[id], sig)
  BY DEF ReleaseEscrow, MayRelease
<1>3. ASSUME escrows[id].signer # NoSigner
      PROVE  /\ sig \in signed
             /\ sig = [signer |-> escrows[id].signer,
                       message |-> ReleaseMessage(id, escrows[id])]
  <2>1. sig = [signer |-> escrows[id].signer,
               message |-> ReleaseMessage(id, escrows[id])]
    BY <1>2, <1>3 DEF SignatureAccepted
  <2>2. escrows[id].signer \in Signers
    BY <1>1, <1>3 DEF EscrowEntries
  <2>3. ReleaseMessage(id, escrows[id]) \in ReleaseMessages
    BY <1>1, ReleaseMessageType
  <2>4. sig \in Signatures
    BY <2>1, <2>2, <2>3 DEF Signatures
  <2> QED BY <2>1, <2>4, EscrowAssumption
<1>4. stored \in Signatures \cup {NoSignature}
  BY <1>3 DEF LedgerTypeOK
<1>5. IF escrows[id].signer = NoSigner
      THEN stored = NoSignature
      ELSE /\ stored \in signed
           /\ stored = [signer |-> escrows[id].signer,
                        message |-> ReleaseMessage(id, escrows[id])]
  BY <1>3
<1> HIDE DEF stored
<1>6. e \in EscrowEntries /\ e.status = "released" /\ e.signature = stored
      /\ SameTerms(escrows[id], e)
      /\ e.conditionsMet = escrows[id].conditionsMet
  BY <1>1, <1>4 DEF EscrowEntries, SameTerms
<1>7. escrows' = [escrows EXCEPT ![id] = e]
  BY DEF ReleaseEscrow, stored
<1> HIDE DEF e
<1>8. EntryChange(id, escrows[id], e)
  BY <1>2, <1>5, <1>6 DEF EntryChange, Settles
<1>9. /\ PayOut(id, escrows[id].beneficiary, escrows[id].amount)
      /\ UNCHANGED <<now, admin, escrowCounter, signed>>
  BY DEF ReleaseEscrow, hostVars
<1>10. /\ escrows' \in [DOMAIN escrows' -> EscrowEntries]
       /\ DOMAIN escrows' = DOMAIN escrows
       /\ LedgerStep
  BY <1>6, <1>7, <1>8, <1>9, RewriteFacts
<1>11. escrows[id].beneficiary \in Addresses /\ escrows[id].amount \in Nat
  BY <1>1 DEF EscrowEntries
<1>12. /\ payouts' \in Seq(Payouts)
       /\ FitsI128(escrowPool') /\ escrowPool' \in Int
  BY <1>1, <1>9, <1>11, PayOutType
<1> QED BY <1>9, <1>10, <1>12 DEF LedgerTypeOK, HostTypeOK

(* Every step.                                                             *)
LEMMA LedgerStepFacts ==
    ASSUME LedgerTypeOK, [LedgerNext]_ledgerVars
    PROVE  LedgerTypeOK' /\ LedgerStep
<1>1. now \in Nat /\ escrowCounter \in Nat
  BY DEF LedgerTypeOK, HostTypeOK
<1>2. CASE AdvanceClock /\ UNCHANGED escrowVars
  <2>1. EntriesChange
    BY <1>2 DEF escrowVars, EntriesChange, EntryChange, SameTerms, Settles
  <2>2. LedgerTypeOK'
    <3>1. HostTypeOK'
      BY <1>2, HostAssumption DEF AdvanceClock, LedgerTypeOK, HostTypeOK
    <3> QED BY <1>2, <3>1 DEF escrowVars, LedgerTypeOK, FitsI128
  <2> QED
    BY <1>1, <1>2, <2>1, <2>2
       DEF AdvanceClock, escrowVars, LedgerStep, SignaturesAreMade
<1>3. CASE UNCHANGED ledgerVars
  <2>1. EntriesChange
    BY <1>3 DEF ledgerVars, escrowVars, EntriesChange, EntryChange, SameTerms,
                Settles
  <2>2. LedgerTypeOK'
    BY <1>3 DEF ledgerVars, hostVars, escrowVars, LedgerTypeOK, HostTypeOK,
                FitsI128
  <2> QED
    BY <1>1, <1>3, <2>1, <2>2
       DEF ledgerVars, hostVars, escrowVars, LedgerStep, SignaturesAreMade
<1>4. ASSUME NEW a \in Addresses, LedgerInitialize(a)
      PROVE  LedgerTypeOK' /\ LedgerStep
  <2>1. /\ DOMAIN escrows' = {} /\ escrows' = [id \in {} |-> {}]
        /\ now' = now /\ admin' = a
        /\ UNCHANGED <<escrowCounter, escrowPool, payouts, signed>>
    BY <1>4 DEF LedgerInitialize, ClaimAdmin, ForgetEscrows
  <2>2. LedgerTypeOK'
    <3>1. escrows' \in [DOMAIN escrows' -> EscrowEntries]
      BY <2>1
    <3>2. DOMAIN escrows' \subseteq 1..escrowCounter'
      BY <2>1
    <3>3. HostTypeOK'
      BY <2>1 DEF LedgerTypeOK, HostTypeOK
    <3> QED BY <2>1, <3>1, <3>2, <3>3 DEF LedgerTypeOK, FitsI128
  <2> QED
    BY <1>1, <2>1, <2>2 DEF LedgerStep, EntriesChange, SignaturesAreMade
<1>5. CASE CreateStep
  BY <1>5, CreateFacts DEF CreateStep
<1>6. ASSUME NEW id \in DOMAIN escrows, MarkConditionsMet(id)
      PROVE  LedgerTypeOK' /\ LedgerStep
  BY <1>6, MarkFacts
<1>7. CASE SettleStep
  BY <1>7, RefundFacts, ReleaseFacts DEF SettleStep
<1>8. ASSUME NEW s \in Signers, NEW id \in DOMAIN escrows, Sign(s, id)
      PROVE  LedgerTypeOK' /\ LedgerStep
  <2> DEFINE sig == [signer |-> s, message |-> ReleaseMessage(id, escrows[id])]
  <2>1. /\ signed' = signed \cup {sig}
        /\ UNCHANGED <<now, admin, escrows, escrowCounter, escrowPool, payouts>>
    BY <1>8 DEF Sign, hostVars
  <2>2. escrows[id] \in EscrowEntries /\ id \in Nat
    BY DEF LedgerTypeOK
  <2>3. sig \in Signatures
    BY <2>2, ReleaseMessageType DEF Signatures
  <2>4. sig.message = ReleaseMessage(id, escrows[id])
    OBVIOUS
  <2> HIDE DEF sig
  <2>5. LedgerTypeOK'
    BY <2>1, <2>3 DEF LedgerTypeOK, HostTypeOK, FitsI128
  <2>6. EntriesChange
    BY <2>1 DEF EntriesChange, EntryChange, SameTerms, Settles
  <2>7. SignaturesAreMade
    BY <2>1, <2>4 DEF SignaturesAreMade
  <2> QED BY <1>1, <2>1, <2>5, <2>6, <2>7 DEF LedgerStep
<1> QED BY <1>2, <1>3, <1>4, <1>5, <1>6, <1>7, <1>8 DEF LedgerNext

(* Types hold in every execution: the entries, the events, and the pool    *)
(* within an i128.                                                         *)
THEOREM LedgerTypeCorrect == LedgerSpec => []LedgerTypeOK
<1>1. LedgerTypeOK /\ [LedgerNext]_ledgerVars => LedgerTypeOK'
  BY LedgerStepFacts
<1> QED BY <1>1, LedgerInitTypeOK, PTL DEF LedgerSpec
-----------------------------------------------------------------------------
(* Signatures name ids that were given out, so the next escrow is none of  *)
(* those they were made for.                                               *)
SignedIdsWereUsed ==
    \A sig \in signed : sig.message.id \in 1..escrowCounter

(* The inductive invariant.                                                *)
EscrowInv ==
    /\ LedgerTypeOK
    /\ SignedIdsWereUsed
    /\ SettledOnlyWhenDue
    /\ ReleasesAreSigned
    /\ SignaturesBindOneEscrow

(* It holds before the first call.                                         *)
LEMMA InitEscrowInv == LedgerInit => EscrowInv
BY LedgerInitTypeOK
   DEF LedgerInit, EscrowInit, EscrowInv, SignedIdsWereUsed, SettledOnlyWhenDue,
       ReleasesAreSigned, SignaturesBindOneEscrow

(* The message of an entry depends on its terms only and names its id.     *)
LEMMA MessageOfTerms ==
    ASSUME NEW id, NEW e, NEW f, SameTerms(e, f)
    PROVE  /\ ReleaseMessage(id, f) = ReleaseMessage(id, e)
           /\ ReleaseMessage(id, e).id = id
BY DEF SameTerms, ReleaseMessage

(* Every successful call keeps it.                                         *)
LEMMA NextEscrowInv == EscrowInv /\ [LedgerNext]_ledgerVars => EscrowInv'
<1> SUFFICES ASSUME EscrowInv, [LedgerNext]_ledgerVars PROVE EscrowInv'
  OBVIOUS
<1>1. LedgerTypeOK /\ LedgerTypeOK' /\ LedgerStep
  BY LedgerStepFacts DEF EscrowInv
<1>2. now \in Nat /\ now' \in Nat /\ now' >= now
  BY <1>1 DEF LedgerTypeOK, HostTypeOK, LedgerStep
<1>3. ASSUME NEW id \in DOMAIN escrows'
      PROVE  \/ /\ id \in DOMAIN escrows
                /\ EntryChange(id, escrows[id], escrows'[id])
             \/ /\ id \notin DOMAIN escrows /\ id = escrowCounter + 1
                /\ FreshEntry(escrows'[id])
  BY <1>1 DEF LedgerStep, EntriesChange
<1>4. SignedIdsWereUsed'
  <2> SUFFICES ASSUME NEW sig \in signed'
               PROVE  sig.message.id \in 1..escrowCounter'
    BY DEF SignedIdsWereUsed
  <2>1. /\ escrowCounter \in Nat /\ escrowCounter' \in Nat
        /\ escrowCounter' >= escrowCounter
    BY <1>1 DEF LedgerTypeOK, LedgerStep
  <2>2. sig.message.id \in 1..escrowCounter
    <3>1. CASE sig \in signed
      BY <3>1 DEF EscrowInv, SignedIdsWereUsed
    <3>2. CASE sig \notin signed
      <4>1. PICK id \in DOMAIN escrows :
                sig.message = ReleaseMessage(id, escrows[id])
        BY <1>1, <3>2 DEF LedgerStep, SignaturesAreMade
      <4>2. sig.message.id = id
        BY <4>1 DEF ReleaseMessage
      <4> QED BY <1>1, <4>2 DEF LedgerTypeOK
    <3> QED BY <3>1, <3>2
  <2> QED BY <2>1, <2>2
<1>5. SettledOnlyWhenDue'
  <2> SUFFICES ASSUME NEW id \in DOMAIN escrows'
               PROVE  /\ escrows'[id].status = "released" =>
                             Unlocked(escrows[id])'
                      /\ escrows'[id].status = "refunded" =>
                             Expired(escrows[id])'
    BY DEF SettledOnlyWhenDue
  <2>1. CASE /\ id \in DOMAIN escrows
             /\ EntryChange(id, escrows[id], escrows'[id])
    <3>1. /\ escrows[id].lockUntil \in Nat
          /\ escrows'[id].lockUntil = escrows[id].lockUntil
          /\ escrows[id].conditionsMet => escrows'[id].conditionsMet
      BY <1>1, <2>1 DEF LedgerTypeOK, EscrowEntries, EntryChange, SameTerms
    <3>2. /\ Expired(escrows[id]) => Expired(escrows[id])'
          /\ Unlocked(escrows[id]) => Unlocked(escrows[id])'
      BY <1>2, <3>1 DEF Expired, Unlocked
    <3>3. /\ escrows[id].status = "released" => Unlocked(escrows[id])
          /\ escrows[id].status = "refunded" => Expired(escrows[id])
      BY <2>1 DEF EscrowInv, SettledOnlyWhenDue
    <3> QED BY <2>1, <3>2, <3>3 DEF EntryChange, Settles
  <2>2. CASE FreshEntry(escrows'[id])
    BY <2>2 DEF FreshEntry, Unlocked
  <2> QED BY <1>3, <2>1, <2>2
<1>6. ReleasesAreSigned'
  <2> SUFFICES ASSUME NEW id \in DOMAIN escrows'
               PROVE  LET e == escrows'[id]
                      IN  IF e.status = "released" /\ e.signer # NoSigner
                          THEN /\ e.signature \in signed'
                               /\ e.signature.signer = e.signer
                               /\ e.signature.message.id = id
                               /\ e.signature.message.nonce = e.nonce
                               /\ e.signature.message.beneficiary
                                      = e.beneficiary
                               /\ e.signature.message.amount = e.amount
                          ELSE e.signature = NoSignature
    BY DEF ReleasesAreSigned
  <2>1. CASE /\ id \in DOMAIN escrows
             /\ EntryChange(id, escrows[id], escrows'[id])
    <3> DEFINE e == escrows[id]
               f == escrows'[id]
    <3>1. SameTerms(e, f) /\ Settles(id, e, f)
      BY <2>1 DEF EntryChange
    <3>2. IF e.status = "released" /\ e.signer # NoSigner
          THEN /\ e.signature \in signed
               /\ e.signature.signer = e.signer
               /\ e.signature.message.id = id
               /\ e.signature.message.nonce = e.nonce
               /\ e.signature.message.beneficiary = e.beneficiary
               /\ e.signature.message.amount = e.amount
          ELSE e.signature = NoSignature
      BY <2>1 DEF EscrowInv, ReleasesAreSigned
    <3>3. signed \subseteq signed'
      BY <1>1 DEF LedgerStep
    <3> HIDE DEF e, f
    <3>4. CASE f.status = e.status /\ f.signature = e.signature
      BY <3>1, <3>2, <3>3, <3>4 DEF SameTerms, e, f
    <3>5. CASE /\ f.status = "refunded" /\ f.signature = e.signature
               /\ e.status # "released"
      BY <3>2, <3>5 DEF f
    <3>6. CASE /\ f.status = "released" /\ e.signer = NoSigner
               /\ f.signature = NoSignature
      BY <3>1, <3>6 DEF SameTerms, f
    <3>7. CASE /\ f.status = "released" /\ e.signer # NoSigner
               /\ f.signature \in signed
               /\ f.signature = [signer |-> e.signer,
                                 message |-> ReleaseMessage(id, e)]
      BY <3>1, <3>3, <3>7 DEF SameTerms, ReleaseMessage, f
    <3> QED BY <3>1, <3>4, <3>5, <3>6, <3>7 DEF Settles
  <2>2. CASE FreshEntry(escrows'[id])
    BY <2>2 DEF FreshEntry
  <2> QED BY <1>3, <2>1, <2>2
<1>7. SignaturesBindOneEscrow'
  <2> SUFFICES ASSUME NEW sig \in signed', NEW id \in DOMAIN escrows'
               PROVE  sig.message.id = id <=>
                          sig.message = ReleaseMessage(id, escrows'[id])
    BY DEF SignaturesBindOneEscrow, ReleaseMessage
  <2>1. ReleaseMessage(id, escrows'[id]).id = id
    BY DEF ReleaseMessage
  <2>2. CASE /\ id \in DOMAIN escrows
             /\ EntryChange(id, escrows[id], escrows'[id])
    <3>1. ReleaseMessage(id, escrows'[id]) = ReleaseMessage(id, escrows[id])
      BY <2>2, MessageOfTerms DEF EntryChange
    <3>2. CASE sig \in signed
      BY <2>2, <3>1, <3>2 DEF EscrowInv, SignaturesBindOneEscrow
    <3>3. CASE sig \notin signed
      <4>1. PICK k \in DOMAIN escrows :
                sig.message = ReleaseMessage(k, escrows[k])
        BY <1>1, <3>3 DEF LedgerStep, SignaturesAreMade
      <4>2. sig.message.id = k
        BY <4>1 DEF ReleaseMessage
      <4> QED BY <2>1, <3>1, <4>1, <4>2
    <3> QED BY <3>2, <3>3
  <2>3. CASE /\ id \notin DOMAIN escrows /\ id = escrowCounter + 1
    <3>1. sig.message.id \in 1..escrowCounter
      <4>1. CASE sig \in signed
        BY <4>1 DEF EscrowInv, SignedIdsWereUsed
      <4>2. CASE sig \notin signed
        <5>1. PICK k \in DOMAIN escrows :
                  sig.message = ReleaseMessage(k, escrows[k])
          BY <1>1, <4>2 DEF LedgerStep, SignaturesAreMade
        <5>2. sig.message.id = k
          BY <5>1 DEF ReleaseMessage
        <5> QED BY <1>1, <5>2 DEF LedgerTypeOK
      <4> QED BY <4>1, <4>2
    <3>2. sig.message.id # id
      BY <1>1, <2>3, <3>1 DEF LedgerTypeOK
    <3> QED BY <2>1, <3>2
  <2> QED BY <1>3, <2>2, <2>3
<1> QED BY <1>1, <1>4, <1>5, <1>6, <1>7 DEF EscrowInv

(* The invariant of every execution.                                       *)
LEMMA EscrowInvHolds == LedgerSpec => []EscrowInv
BY InitEscrowInv, NextEscrowInv, PTL DEF LedgerSpec

(* No escrow is ever paid out before it is due.                            *)
THEOREM PaidOnlyWhenDue == LedgerSpec => []SettledOnlyWhenDue
BY EscrowInvHolds, PTL DEF EscrowInv

(* A released escrow with a release signer carries that signer's signature *)
(* over this very escrow.                                                  *)
THEOREM ReleasesCarrySignatures == LedgerSpec => []ReleasesAreSigned
BY EscrowInvHolds, PTL DEF EscrowInv

(* A signature never authorises two escrows, nor one made after a late     *)
(* initialize forgot the escrow it was made for.                           *)
THEOREM NoSignatureIsReused == LedgerSpec => []SignaturesBindOneEscrow
BY EscrowInvHolds, PTL DEF EscrowInv
-----------------------------------------------------------------------------
(* A transaction with neither a new escrow nor a payout.                   *)
LEMMA QuietPool ==
    ASSUME LedgerTypeOK, UNCHANGED <<escrowCounter, escrowPool, payouts>>
    PROVE  PoolMoves
BY DEF PoolMoves, Deposited, PaidOut, LedgerTypeOK

(* Appending an event changes the list by that event.                      *)
LEMMA AppendEvent ==
    ASSUME LedgerTypeOK, NEW p \in Payouts, payouts' = Append(payouts, p)
    PROVE  /\ payouts' # payouts
           /\ Len(payouts') = Len(payouts) + 1
           /\ payouts'[Len(payouts')] = p
<1>1. payouts \in Seq(Payouts)
  BY DEF LedgerTypeOK
<1>2. /\ Len(payouts) \in Nat
      /\ Len(payouts') = Len(payouts) + 1
      /\ payouts'[Len(payouts) + 1] = p
  BY <1>1
<1> QED BY <1>2

(* A payout of a stored escrow.                                            *)
LEMMA PayOutPool ==
    ASSUME LedgerTypeOK, NEW id \in Nat, NEW u \in Addresses,
           NEW amount \in Nat, PayOut(id, u, amount), escrowCounter' = escrowCounter
    PROVE  PoolMoves
<1> DEFINE p == [escrow |-> id, to |-> u, amount |-> amount]
<1>1. p \in Payouts /\ p.amount = amount
  BY DEF Payouts
<1>2. payouts' = Append(payouts, p) /\ escrowPool' = escrowPool - amount
  BY DEF PayOut
<1> HIDE DEF p
<1>3. /\ payouts' # payouts /\ Len(payouts') = Len(payouts) + 1
      /\ payouts'[Len(payouts')] = p
  BY <1>1, <1>2, AppendEvent
<1>4. Deposited = 0 /\ PaidOut = amount
  BY <1>1, <1>3 DEF Deposited, PaidOut
<1>5. escrowPool' - escrowPool = Deposited - PaidOut
  BY <1>2, <1>4 DEF LedgerTypeOK
<1> QED BY <1>3, <1>4, <1>5 DEF PoolMoves

(* Every call moves the pool by what it deposits and pays out.             *)
LEMMA NextPool ==
    ASSUME LedgerTypeOK, [LedgerNext]_ledgerVars
    PROVE  PoolMoves
<1>1. CASE AdvanceClock /\ UNCHANGED escrowVars
  BY <1>1, QuietPool DEF escrowVars
<1>2. CASE UNCHANGED ledgerVars
  BY <1>2, QuietPool DEF ledgerVars, escrowVars
<1>3. ASSUME NEW a \in Addresses, LedgerInitialize(a) PROVE PoolMoves
  BY <1>3, QuietPool DEF LedgerInitialize, ForgetEscrows
<1>4. ASSUME NEW d \in Addresses, NEW b \in Addresses,
             NEW amount \in Amounts, NEW lock \in LockDurations,
             NEW s \in Signers \cup {NoSigner},
             CreateEscrow(d, b, amount, lock, s)
      PROVE  PoolMoves
  <2> DEFINE id == escrowCounter + 1
             e == NewEscrow(id, d, b, amount, lock, s)
  <2>1. /\ id \in Nat /\ amount \in Nat \ {0} /\ lock \in Nat
        /\ escrowCounter \in Nat /\ now \in Nat
    BY <1>4, EscrowAssumption, HostAssumption
       DEF CreateEscrow, LedgerTypeOK, HostTypeOK
  <2>2. e \in EscrowEntries /\ e.amount = amount
    BY <2>1, NewEscrowType
  <2>3. /\ escrowCounter < MaxEscrows /\ escrowCounter' = id
        /\ escrows' = Put(escrows, id, e)
        /\ escrowPool' = escrowPool + amount /\ payouts' = payouts
    BY <1>4 DEF CreateEscrow
  <2> HIDE DEF e
  <2>4. escrows'[id] = e
    BY <2>2, <2>3, PutEntry
  <2>5. Deposited = amount /\ PaidOut = 0
    BY <2>1, <2>2, <2>3, <2>4 DEF Deposited, PaidOut
  <2> QED BY <2>1, <2>3, <2>5 DEF PoolMoves, LedgerTypeOK
<1>5. ASSUME NEW id \in DOMAIN escrows, MarkConditionsMet(id) PROVE PoolMoves
  BY <1>5, QuietPool DEF MarkConditionsMet
<1>6. ASSUME NEW id \in DOMAIN escrows, NEW u \in Addresses,
             \/ RefundEscrow(id, u)
             \/ \E sig \in signed \cup {NoSignature} : ReleaseEscrow(id, u, sig)
      PROVE  PoolMoves
  <2>1. /\ escrows[id].depositor \in Addresses
        /\ escrows[id].beneficiary \in Addresses
        /\ escrows[id].amount \in Nat /\ id \in Nat
    BY DEF LedgerTypeOK, EscrowEntries
  <2> QED BY <1>6, <2>1, PayOutPool DEF RefundEscrow, ReleaseEscrow
<1>7. ASSUME NEW s \in Signers, NEW id \in DOMAIN escrows, Sign(s, id)
      PROVE  PoolMoves
  BY <1>7, QuietPool DEF Sign
<1> QED
  BY <1>1, <1>2, <1>3, <1>4, <1>5, <1>6, <1>7
     DEF LedgerNext, CreateStep, SettleStep

(* The pool total follows the deposits and the payout events exactly, in   *)
(* every execution.                                                        *)
THEOREM PoolIsExact == LedgerSpec => PoolTracksTransfers
<1>1. LedgerTypeOK /\ [LedgerNext]_ledgerVars => [PoolMoves]_ledgerVars
  BY NextPool
<1> QED BY <1>1, LedgerTypeCorrect, PTL DEF LedgerSpec, PoolTracksTransfers
=============================================================================
