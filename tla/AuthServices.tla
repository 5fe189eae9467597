---------------------------- MODULE AuthServices -----------------------------
(* The services the middleware holds (AuthServices in                          *)
(* src/src/auth/middleware.rs): account lockout, sessions, tokens and request   *)
(* limits, on one clock.  They share no state and no lock, so that the steps of *)
(* two of them commute; a behaviour therefore exercises one of them, chosen at  *)
(* the start, and the others stay as they were built.                          *)
EXTENDS AccountLockout, SessionManager, TokenRevocation, RequestLimit

VARIABLE service   \* the service this behaviour exercises

vars == <<service, clockVars, lockVars, sessionVars, tokenVars, limitVars>>

Services == {"lockout", "sessions", "tokens", "limits"}

Init ==
    /\ service \in Services
    /\ ClockInit
    /\ LockInit
    /\ SessionInit
    /\ TokenInit
    /\ LimitInit

Next ==
    /\ UNCHANGED service
    /\ \/ /\ Tick
          /\ UNCHANGED <<lockVars, sessionVars, tokenVars, limitVars>>
       \/ /\ service = "lockout"
          /\ LockNext
          /\ UNCHANGED <<sessionVars, tokenVars, limitVars>>
       \/ /\ service = "sessions"
          /\ SessionNext
          /\ UNCHANGED <<lockVars, tokenVars, limitVars>>
       \/ /\ service = "tokens"
          /\ TokenNext
          /\ UNCHANGED <<lockVars, sessionVars, limitVars>>
       \/ /\ service = "limits"
          /\ LimitNext
          /\ UNCHANGED <<lockVars, sessionVars, tokenVars>>

Spec == Init /\ [][Next]_vars

-----------------------------------------------------------------------------
\* Every variable of every service keeps to its type.
TypeOK ==
    /\ service \in Services
    /\ ClockTypeOK
    /\ LockTypeOK
    /\ SessionTypeOK
    /\ TokenTypeOK
    /\ LimitTypeOK
=============================================================================
