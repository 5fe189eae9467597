---------------------------- MODULE EscrowLedger ----------------------------
(***************************************************************************)
(* The escrows of the scanner contract: create, mark conditions met,       *)
(* release, refund, the release signature (Issue #481), the pool total and *)
(* the payout events.  The permission that mark_escrow_conditions_met asks *)
(* for is added by ScannerContract; here any address may mark.             *)
(***************************************************************************)
EXTENDS ContractHost, Sequences, FiniteSets

CONSTANTS
    Signers, NoSigner,     \* ed25519 public keys; release_signer is None
    NoSignature,           \* release_signature or the argument is None
    Amounts,               \* the amounts callers pass
    LockDurations,         \* the lock durations callers pass
    MaxEscrows,            \* BOUND on the escrows created
    MaxRefunds,            \* BOUND: no refund after this many payouts
    MaxSignatures          \* BOUND on the signatures made

Nonces == [seed : Addresses, counter : Nat, at : Nat]

ReleaseMessages ==
    [nonce : Nonces, id : Nat, beneficiary : Addresses, amount : Int]

Signatures == [signer : Signers, message : ReleaseMessages]

ASSUME EscrowAssumption ==
    /\ NoSigner \notin Signers
    /\ NoSignature \notin Signatures
    /\ Amounts \subseteq Int
    /\ LockDurations \subseteq 0..MaxU64
    /\ MaxEscrows \in Nat
    /\ MaxRefunds \in Nat
    /\ MaxSignatures \in Nat

VARIABLES
    escrows,         \* ESCROWS and ESCROW_NONCES
    escrowCounter,   \* ESCROW_COUNTER
    escrowPool,      \* ESCROW: the total that get_escrow_pool_balance returns
    payouts,         \* the payout events published, in order
    signed           \* the signatures that release signers have made

escrowVars == <<escrows, escrowCounter, escrowPool, payouts, signed>>
ledgerVars == <<hostVars, escrowVars>>
-----------------------------------------------------------------------------
(* sha256 over the beneficiary, the counter and the ledger's position:     *)
(* injective, so the nonce is what is hashed.                              *)
Nonce(beneficiary, id) == [seed |-> beneficiary, counter |-> id, at |-> now]

NewEscrow(id, depositor, beneficiary, amount, lock, signer) ==
    [ depositor |-> depositor, beneficiary |-> beneficiary,
      amount |-> amount, status |-> "pending", lockUntil |-> now + lock,
      conditionsMet |-> FALSE, signer |-> signer, signature |-> NoSignature,
      nonce |-> Nonce(beneficiary, id) ]

ReleaseMessage(id, escrow) ==
    [ nonce |-> escrow.nonce, id |-> id,
      beneficiary |-> escrow.beneficiary, amount |-> escrow.amount ]

SignatureUnchecked(id, escrow, sig) ==
    escrow.signer # NoSigner => sig # NoSignature

(* ed25519_verify accepts a signature its key made over exactly the bytes  *)
(* of the message, and traps on anything else.                             *)
SignatureAccepted(id, escrow, sig) ==
    escrow.signer # NoSigner =>
        sig = [signer |-> escrow.signer, message |-> ReleaseMessage(id, escrow)]

Expired(escrow) == now >= escrow.lockUntil

UnlockedWhenBoth(escrow) == escrow.conditionsMet /\ Expired(escrow)

Unlocked(escrow) == escrow.conditionsMet \/ Expired(escrow)
-----------------------------------------------------------------------------
EscrowInit ==
    /\ escrows = [id \in {} |-> {}]
    /\ escrowCounter = 0
    /\ escrowPool = 0
    /\ payouts = <<>>
    /\ signed = {}

LedgerInit == HostInit /\ EscrowInit

ForgetEscrowsAndIds(a) ==
    /\ escrows' = [id \in {} |-> {}]
    /\ escrowCounter' = 0
    /\ UNCHANGED <<escrowPool, payouts, signed>>

(* What `initialize` writes here.  The entry points that need no role work *)
(* before it, so there may be escrows to forget; it resets neither the     *)
(* counter nor the pool.                                                   *)
ForgetEscrows(a) ==
    /\ escrows' = [id \in {} |-> {}]
    /\ UNCHANGED <<escrowCounter, escrowPool, payouts, signed>>

LedgerInitialize(a) == ClaimAdmin(a) /\ ForgetEscrows(a)

CreateEscrow(depositor, beneficiary, amount, lock, signer) ==
    LET id == escrowCounter + 1
    IN  /\ amount > 0
        /\ escrowCounter < MaxEscrows
        /\ now + lock <= MaxU64
        /\ escrowPool + amount <= MaxI128
        /\ escrowCounter' = id
        /\ escrows' = Put(escrows, id,
               NewEscrow(id, depositor, beneficiary, amount, lock, signer))
        /\ escrowPool' = escrowPool + amount
        /\ UNCHANGED <<hostVars, payouts, signed>>

(* mark_escrow_conditions_met looks at no status: an escrow may be marked  *)
(* after it was refunded or released.                                      *)
MarkConditionsMet(id) ==
    /\ id \in DOMAIN escrows
    /\ escrows' = [escrows EXCEPT ![id].conditionsMet = TRUE]
    /\ UNCHANGED <<hostVars, escrowCounter, escrowPool, payouts, signed>>

PayOutUnchecked(id, recipient, amount) ==
    /\ amount > 0
    /\ payouts' = Append(payouts,
           [escrow |-> id, to |-> recipient, amount |-> amount])
    /\ escrowPool' = escrowPool - amount

PayOutUntracked(id, recipient, amount) ==
    /\ amount > 0
    /\ payouts' = Append(payouts,
           [escrow |-> id, to |-> recipient, amount |-> amount])
    /\ UNCHANGED escrowPool

(* execute_payout_placeholder and the pool update that follows it. *)
PayOut(id, recipient, amount) ==
    /\ amount > 0
    /\ FitsI128(escrowPool - amount)
    /\ payouts' = Append(payouts,
           [escrow |-> id, to |-> recipient, amount |-> amount])
    /\ escrowPool' = escrowPool - amount

MayRelease(id, caller, sig) ==
    /\ id \in DOMAIN escrows
    /\ escrows[id].depositor = caller
    /\ escrows[id].status # "released"
    /\ Unlocked(escrows[id])
    /\ SignatureAccepted(id, escrows[id], sig)

ReleaseEscrow(id, caller, sig) ==
    /\ MayRelease(id, caller, sig)
    /\ PayOut(id, escrows[id].beneficiary, escrows[id].amount)
    /\ escrows' = [escrows EXCEPT
           ![id].status = "released",
           ![id].signature = IF escrows[id].signer = NoSigner
                             THEN NoSignature ELSE sig]
    /\ UNCHANGED <<hostVars, escrowCounter, signed>>

MayRefundMarked(id, caller) ==
    /\ id \in DOMAIN escrows
    /\ escrows[id].depositor = caller
    /\ escrows[id].status # "released"
    /\ Expired(escrows[id])

MayRefundEarly(id, caller) ==
    /\ id \in DOMAIN escrows
    /\ escrows[id].depositor = caller
    /\ escrows[id].status # "released"
    /\ ~escrows[id].conditionsMet

(* Only the status "released" stops a refund: an escrow whose status is    *)
(* already "refunded" is refunded again.                                   *)
MayRefund(id, caller) ==
    /\ id \in DOMAIN escrows
    /\ escrows[id].depositor = caller
    /\ escrows[id].status # "released"
    /\ Expired(escrows[id])
    /\ ~escrows[id].conditionsMet

RefundEscrow(id, caller) ==
    /\ Len(payouts) < MaxRefunds
    /\ MayRefund(id, caller)
    /\ PayOut(id, escrows[id].depositor, escrows[id].amount)
    /\ escrows' = [escrows EXCEPT ![id].status = "refunded"]
    /\ UNCHANGED <<hostVars, escrowCounter, signed>>

(* A key signs what escrow_release_message returns for an escrow. *)
Sign(signer, id) ==
    /\ id \in DOMAIN escrows
    /\ Cardinality(signed) < MaxSignatures
    /\ signed' = signed \cup
           {[signer |-> signer, message |-> ReleaseMessage(id, escrows[id])]}
    /\ UNCHANGED <<hostVars, escrows, escrowCounter, escrowPool, payouts>>
-----------------------------------------------------------------------------
CreateStep ==
    \E d, b \in Addresses, amount \in Amounts, lock \in LockDurations,
       s \in Signers \cup {NoSigner} : CreateEscrow(d, b, amount, lock, s)

SettleStep ==
    \E id \in DOMAIN escrows, u \in Addresses :
        \/ RefundEscrow(id, u)
        \/ \E sig \in signed \cup {NoSignature} : ReleaseEscrow(id, u, sig)

LedgerNext ==
    \/ AdvanceClock /\ UNCHANGED escrowVars
    \/ \E a \in Addresses : LedgerInitialize(a)
    \/ CreateStep
    \/ \E id \in DOMAIN escrows : MarkConditionsMet(id)
    \/ SettleStep
    \/ \E s \in Signers, id \in DOMAIN escrows : Sign(s, id)

LedgerSpec == LedgerInit /\ [][LedgerNext]_ledgerVars
-----------------------------------------------------------------------------
EscrowEntries ==
    [ depositor : Addresses, beneficiary : Addresses, amount : Nat \ {0},
      status : {"pending", "released", "refunded"}, lockUntil : Nat,
      conditionsMet : BOOLEAN, signer : Signers \cup {NoSigner},
      signature : Signatures \cup {NoSignature}, nonce : Nonces ]

Payouts == [escrow : Nat, to : Addresses, amount : Nat]

LedgerTypeOK ==
    /\ HostTypeOK
    /\ escrowCounter \in 0..MaxEscrows
    /\ DOMAIN escrows \subseteq 1..escrowCounter
    /\ escrows \in [DOMAIN escrows -> EscrowEntries]
    /\ FitsI128(escrowPool) /\ escrowPool \in Int
    /\ payouts \in Seq(Payouts)
    /\ signed \subseteq Signatures

(* An escrow was paid out for a reason that still holds: a refund after    *)
(* its lock expired, a release after that or once its conditions were met  *)
(* (release_escrow and refund_escrow compare the clock, mark sets a flag   *)
(* that nothing clears).                                                   *)
SettledOnlyWhenDue ==
    \A id \in DOMAIN escrows :
        /\ escrows[id].status = "released" => Unlocked(escrows[id])
        /\ escrows[id].status = "refunded" => Expired(escrows[id])

(* A released escrow that registered a release signer carries a signature  *)
(* this signer made over this very escrow, and no other escrow carries a   *)
(* signature at all (lib.rs:283-285, tests/escrow_release_signature.rs).   *)
ReleasesAreSigned ==
    \A id \in DOMAIN escrows :
        LET e == escrows[id]
        IN  IF e.status = "released" /\ e.signer # NoSigner
            THEN /\ e.signature \in signed
                 /\ e.signature.signer = e.signer
                 /\ e.signature.message.id = id
                 /\ e.signature.message.nonce = e.nonce
                 /\ e.signature.message.beneficiary = e.beneficiary
                 /\ e.signature.message.amount = e.amount
            ELSE e.signature = NoSignature

(* A signature authorises one escrow only, even when an initialize forgot  *)
(* the escrow it was made for: it covers the message of a stored escrow    *)
(* exactly when it names that escrow's id (build_release_message binds     *)
(* nonce, id, beneficiary and amount; next_counter never repeats an id).   *)
SignaturesBindOneEscrow ==
    \A sig \in signed : \A id \in DOMAIN escrows :
        sig.message.id = id <=> sig.message = ReleaseMessage(id, escrows[id])

(* The pool total moves by exactly what a transaction deposits or pays     *)
(* out: a new escrow adds its amount, a payout event takes its own away,   *)
(* no transaction does both, and nothing else touches the total            *)
(* (create_escrow, release_escrow, refund_escrow).                         *)
Deposited ==
    IF escrowCounter' = escrowCounter THEN 0
    ELSE escrows'[escrowCounter'].amount

PaidOut ==
    IF payouts' = payouts THEN 0 ELSE payouts'[Len(payouts')].amount

PoolMoves ==
    /\ escrowCounter' \in {escrowCounter, escrowCounter + 1}
    /\ Len(payouts') \in {Len(payouts), Len(payouts) + 1}
    /\ Deposited = 0 \/ PaidOut = 0
    /\ escrowPool' - escrowPool = Deposited - PaidOut

PoolTracksTransfers == [][PoolMoves]_ledgerVars
-----------------------------------------------------------------------------
(* Each escrow is paid out once: what "refund escrow funds to depositor"   *)
(* and "release escrow funds to beneficiary" (lib.rs:938, 869) promise.    *)
OnePayoutPerEscrow ==
    \A i, j \in DOMAIN payouts : payouts[i].escrow = payouts[j].escrow => i = j

-----------------------------------------------------------------------------
(* Fairness for liveness: time passes and a depositor who may release an   *)
(* escrow does so in the end.  The contract schedules nothing itself.      *)
LedgerFairness ==
    /\ WF_ledgerVars(AdvanceClock /\ UNCHANGED escrowVars)
    /\ \A id \in 1..MaxEscrows : \A u \in Addresses :
           WF_ledgerVars(ReleaseEscrow(id, u, NoSignature))

LedgerFairSpec == LedgerSpec /\ LedgerFairness

(* An escrow that needs no signature is released in the end, whatever      *)
(* marks, refunds and other escrows come in between, unless initialize     *)
(* forgot it or refunds took the pool total to its lower limit: none of    *)
(* the statuses is a dead end for the beneficiary.                         *)
UnsignedEscrowsAreReleased ==
    \A id \in 1..MaxEscrows :
        ( /\ id \in DOMAIN escrows
          /\ escrows[id].signer = NoSigner
          /\ escrows[id].lockUntil <= MaxTime )
        ~> ( id \in DOMAIN escrows =>
                 \/ escrows[id].status = "released"
                 \/ ~FitsI128(escrowPool - escrows[id].amount) )
-----------------------------------------------------------------------------
(* What the ledger promises, stated in EscrowPromise, whose state is read  *)
(* off the stored entries.                                                 *)
PhaseOf == [pending |-> "held", refunded |-> "returned", released |-> "paid"]

Phase(id) ==
    IF id > escrowCounter THEN "absent"
    ELSE IF id \notin DOMAIN escrows THEN "forgotten"
    ELSE PhaseOf[escrows[id].status]

Phases == [id \in 1..MaxEscrows |-> Phase(id)]

TermsOf(e) == [depositor |-> e.depositor, beneficiary |-> e.beneficiary,
               amount |-> e.amount]

EscrowTerms == [id \in DOMAIN escrows |-> TermsOf(escrows[id])]

ConfirmedIds == {id \in DOMAIN escrows : escrows[id].conditionsMet}

ExpiredIds == {id \in DOMAIN escrows : Expired(escrows[id])}

Promise == INSTANCE EscrowPromise WITH
    Ids <- 1..MaxEscrows,
    phase <- Phases,
    terms <- EscrowTerms,
    confirmed <- ConfirmedIds,
    expired <- ExpiredIds

(* The ledger implements that promise: the beneficiary is paid at most     *)
(* once and finally, the depositor only after the lock and while the       *)
(* conditions are not met, each exactly the amount deposited.              *)
KeepsPromise == Promise!Spec
=============================================================================
