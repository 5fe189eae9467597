---------------------------- MODULE ServiceClock -----------------------------
(* What the services of the server have in common: the wall clock they read,   *)
(* and the calls made to them.                                                 *)
EXTENDS Integers, Sequences, FiniteSets, SequencesExt, CountedLists

CONSTANTS
    MaxTime,   \* bound: the clock
    MaxCalls   \* bound: calls begun

ASSUME BoundsNat == MaxTime \in Nat /\ MaxCalls \in Nat

VARIABLES
    now,
    begun      \* calls begun

clockVars == <<now, begun>>

Times == 0 .. MaxTime

\* A time that never comes: the field of an Option that is None.
Never == -1

ClockTypeOK ==
    /\ now \in Times
    /\ begun \in 0 .. MaxCalls

ClockInit ==
    /\ now = 0
    /\ begun = 0

Tick ==
    /\ now < MaxTime
    /\ now' = now + 1
    /\ UNCHANGED begun

Begin ==
    /\ begun < MaxCalls
    /\ begun' = begun + 1
    /\ UNCHANGED now

\* The entries of a list of timestamps that lie within the last `length`.
Within(times, length, at) == [t \in Times |-> IF t > at - length THEN times[t] ELSE 0]

AnyWithin(times, length, at) == \E t \in Times : times[t] > 0 /\ t > at - length
=============================================================================
