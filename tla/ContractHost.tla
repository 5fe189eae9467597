---------------------------- MODULE ContractHost ----------------------------
(***************************************************************************)
(* What every part of the scanner contract (contracts/scanner/src/lib.rs)  *)
(* shares: the ledger clock, the ADMIN key of the instance storage, and    *)
(* the widths of the integers the contract stores.                         *)
(*                                                                         *)
(* A call of the contract is one transaction: the Soroban host runs it to  *)
(* its end before the next one and discards every write when it returns an *)
(* error or traps.  An action of these modules is therefore one SUCCESSFUL *)
(* call; a failing call changes nothing and is not an action.              *)
(***************************************************************************)
EXTENDS Integers, FiniteSets

CONSTANTS
    Addresses,   \* the accounts that call the contract
    NoAddress,   \* ADMIN is absent
    MaxTime,     \* BOUND on the clock
    MaxU64,      \* u64::MAX, scaled
    MaxI128      \* i128::MAX, scaled

(* An address is 32 bytes: there are finitely many. *)
ASSUME HostAssumption ==
    /\ IsFiniteSet(Addresses)
    /\ NoAddress \notin Addresses
    /\ MaxTime \in Nat
    /\ MaxU64 \in Nat
    /\ MaxI128 \in Nat

VARIABLES
    now,         \* env.ledger().timestamp()
    admin        \* ADMIN

hostVars == <<now, admin>>

HostTypeOK ==
    /\ now \in 0..MaxTime
    /\ admin \in Addresses \cup {NoAddress}

HostInit ==
    /\ now = 0
    /\ admin = NoAddress

(* Time only moves forward between transactions. *)
AdvanceClock ==
    /\ now < MaxTime
    /\ now' = now + 1
    /\ UNCHANGED admin

(* The guard and the first write of `initialize`: it succeeds once. *)
ClaimAdmin(a) ==
    /\ admin = NoAddress
    /\ admin' = a
    /\ UNCHANGED now

(* Map::set *)
Put(map, key, value) ==
    [k \in DOMAIN map \cup {key} |-> IF k = key THEN value ELSE map[k]]

(* A value an i128 holds. *)
FitsI128(n) == -MaxI128 - 1 <= n /\ n <= MaxI128
=============================================================================
