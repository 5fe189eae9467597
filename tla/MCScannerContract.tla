-------------------------- MODULE MCScannerContract --------------------------
(* Instances of ScannerContract for TLC. *)
EXTENDS ScannerContract, TLC

(* Accounts are interchangeable. *)
AddressSymmetry == Permutations(Addresses)
=============================================================================
