--------------------------- MODULE ServerServices ----------------------------
(* The services of the server that keep their state in memory: the security    *)
(* monitor, the access control of scan results and the audit trail.  They share *)
(* nothing but the clock, so that the steps of two of them commute; a behaviour *)
(* exercises one of them, chosen at the start, and the others stay as built.    *)
EXTENDS SecurityMonitor, ScanAccess, AuditTrail

VARIABLE service   \* the service this behaviour exercises

vars == <<service, clockVars, monitorVars, accessVars, auditVars>>

Services == {"monitor", "access", "audit"}

Init ==
    /\ service \in Services
    /\ ClockInit
    /\ MonitorInit
    /\ AccessInit
    /\ AuditInit

Next ==
    /\ UNCHANGED service
    /\ \/ /\ Tick
          /\ UNCHANGED <<monitorVars, accessVars, auditVars>>
       \/ /\ service = "monitor"
          /\ MonitorNext
          /\ UNCHANGED <<accessVars, auditVars>>
       \/ /\ service = "access"
          /\ AccessNext
          /\ UNCHANGED <<monitorVars, auditVars>>
       \/ /\ service = "audit"
          /\ AuditNext
          /\ UNCHANGED <<monitorVars, accessVars>>

Spec == Init /\ [][Next]_vars

-----------------------------------------------------------------------------
\* Every variable of every service keeps to its type.
TypeOK ==
    /\ service \in Services
    /\ ClockTypeOK
    /\ MonitorTypeOK
    /\ AccessTypeOK
    /\ AuditTypeOK
=============================================================================
