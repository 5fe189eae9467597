---------------------------- MODULE EscrowPromise ----------------------------
(***************************************************************************)
(* What the escrows of the scanner contract promise, without entries,      *)
(* signatures, counters or a pool.  An escrow is held for a beneficiary    *)
(* and can be returned to its depositor; it is confirmed when its          *)
(* conditions are met and expired when its lock has passed, and both are   *)
(* for good.  Paying the beneficiary is final.  Returning is not: the      *)
(* contract returns an expired, unconfirmed escrow as often as it is asked *)
(* and can still pay its beneficiary afterwards.                           *)
(***************************************************************************)
EXTENDS Integers, Sequences

CONSTANTS Ids, Addresses

VARIABLES
    phase,       \* absent, held, returned, paid or forgotten, per escrow
    terms,       \* depositor, beneficiary and amount of an escrow
    confirmed,   \* the escrows whose conditions are met
    expired,     \* the escrows whose lock has passed
    payouts      \* the payout events, in order

vars == <<phase, terms, confirmed, expired, payouts>>

Terms == [depositor : Addresses, beneficiary : Addresses, amount : Nat \ {0}]

(* The terms of a new escrow are any terms, those of the others stay. *)
OpenTerms(id) ==
    /\ DOMAIN terms' = DOMAIN terms \cup {id}
    /\ terms'[id] \in Terms
    /\ \A other \in DOMAIN terms : terms'[other] = terms[other]

PaidTo(id, recipient) ==
    Append(payouts, [escrow |-> id, to |-> recipient, amount |-> terms[id].amount])

Init ==
    /\ phase = [id \in Ids |-> "absent"]
    /\ terms = [id \in {} |-> {}]
    /\ confirmed = {}
    /\ expired = {}
    /\ payouts = <<>>

Open(id) ==
    /\ phase[id] = "absent"
    /\ OpenTerms(id)
    /\ phase' = [phase EXCEPT ![id] = "held"]
    /\ expired' \in {expired, expired \cup {id}}
    /\ UNCHANGED <<confirmed, payouts>>

Confirm(id) ==
    /\ phase[id] \in {"held", "returned", "paid"}
    /\ confirmed' = confirmed \cup {id}
    /\ UNCHANGED <<phase, terms, expired, payouts>>

Expire ==
    /\ expired \subseteq expired'
    /\ expired' \subseteq DOMAIN terms
    /\ UNCHANGED <<phase, terms, confirmed, payouts>>

Pay(id) ==
    /\ phase[id] \in {"held", "returned"}
    /\ id \in confirmed \cup expired
    /\ phase' = [phase EXCEPT ![id] = "paid"]
    /\ UNCHANGED <<terms, confirmed, expired>>
    /\ payouts' = PaidTo(id, terms[id].beneficiary)

Return(id) ==
    /\ phase[id] \in {"held", "returned"}
    /\ id \in expired \ confirmed
    /\ phase' = [phase EXCEPT ![id] = "returned"]
    /\ UNCHANGED <<terms, confirmed, expired>>
    /\ payouts' = PaidTo(id, terms[id].depositor)

Forget ==
    /\ phase' = [id \in Ids |->
                    IF phase[id] = "absent" THEN "absent" ELSE "forgotten"]
    /\ terms' = [id \in {} |-> {}]
    /\ confirmed' = {}
    /\ expired' = {}
    /\ UNCHANGED payouts

Next ==
    \/ \E id \in Ids :
           Open(id) \/ Confirm(id) \/ Pay(id) \/ Return(id)
    \/ Expire
    \/ Forget

Spec == Init /\ [][Next]_vars
=============================================================================
