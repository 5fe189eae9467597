---------------------------- MODULE CountedLists -----------------------------
(* Lists that the code only pushes to, filters, empties and counts (a Vec of   *)
(* timestamps or of user ids): nothing depends on their order, so that a list   *)
(* is how often each value stands in it.                                       *)
EXTENDS Integers, Functions

Counts(S) == [S -> Nat]

NoneOf(S) == [x \in S |-> 0]

Pushed(list, x) == [list EXCEPT ![x] = @ + 1]

\* Its length.
Total(list) == SumFunctionOnSet(list, {x \in DOMAIN list : list[x] > 0})
=============================================================================
