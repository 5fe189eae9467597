---------------------------- MODULE ScanWatchdog -----------------------------
(* The watchdog of one scanner object (ScanWatchdog in                         *)
(* src/src/emergency_stop.rs) with the monitor threads it spawns.  A scanner   *)
(* object may scan several times, so a watchdog may have spawned several       *)
(* monitors; each sleeps, looks at monitor_active, loads the heartbeat and,    *)
(* when it is too old, sets timed_out and triggers the emergency stop.         *)
(*                                                                            *)
(* Time: "silent" says that more than timeout_seconds have passed since the    *)
(* last heartbeat; it becomes true at any moment and a heartbeat clears it.    *)
EXTENDS EmergencyStop, FiniteSets

CONSTANT Monitors   \* threads start_monitoring may spawn in one process

ASSUME MonitorsFinite == IsFiniteSet(Monitors)

VARIABLES
    silent,          \* now - last_heartbeat > timeout_seconds
    timedOut,        \* timed_out
    monitorActive,   \* monitor_active
    monitor          \* monitor[m]: progress of thread m

watchdogVars == <<silent, timedOut, monitorActive, monitor>>

MonitorSteps == {"unborn", "asleep", "loading", "expired", "triggering", "ended"}

WatchdogTypeOK ==
    /\ silent \in BOOLEAN
    /\ timedOut \in BOOLEAN
    /\ monitorActive \in BOOLEAN
    /\ monitor \in [Monitors -> MonitorSteps]

\* ScanWatchdog::with_timeout
WatchdogInit ==
    /\ silent = FALSE
    /\ timedOut = FALSE
    /\ monitorActive = FALSE
    /\ monitor = [m \in Monitors |-> "unborn"]

ForgetWatchdog ==
    /\ silent' = FALSE
    /\ timedOut' = FALSE
    /\ monitorActive' = FALSE
    /\ monitor' = [m \in Monitors |-> "unborn"]

\* Mutant: the loops poll the watchdog alone.
HaltedByWatchdog == timedOut

\* What every scan loop polls before it goes on.
Halted == isStopped \/ timedOut

Unborn == {m \in Monitors : monitor[m] = "unborn"}

\* start_monitoring spawns a thread unless one is thought to run already.
StartMonitoring ==
    \/ /\ monitorActive
       /\ UNCHANGED <<monitorActive, monitor>>
    \/ /\ ~monitorActive
       /\ monitorActive' = TRUE
       /\ monitor' = [monitor EXCEPT ![CHOOSE m \in Unborn : TRUE] = "asleep"]

StopMonitoring == monitorActive' = FALSE

Heartbeat == silent' = FALSE

\* reset stores a heartbeat, clears the timeout and then the current file.
ResetTimedOut == timedOut' = FALSE

TimePasses ==
    /\ ~silent
    /\ silent' = TRUE
    /\ UNCHANGED <<timedOut, monitorActive, monitor, stopVars>>

At(m, step, next) ==
    /\ monitor[m] = step
    /\ monitor' = [monitor EXCEPT ![m] = next]

MonitorWakes(m) ==
    /\ At(m, "asleep", IF monitorActive THEN "loading" ELSE "ended")
    /\ UNCHANGED <<silent, timedOut, monitorActive, stopVars>>

\* Mutant: the monitor ends after one look at a fresh heartbeat.
MonitorLoadsOnce(m) ==
    /\ At(m, "loading", IF silent THEN "expired" ELSE "ended")
    /\ UNCHANGED <<silent, timedOut, monitorActive, stopVars>>

MonitorLoads(m) ==
    /\ At(m, "loading", IF silent THEN "expired" ELSE "asleep")
    /\ UNCHANGED <<silent, timedOut, monitorActive, stopVars>>

MonitorExpires(m) ==
    /\ At(m, "expired", "triggering")
    /\ timedOut' = TRUE
    /\ UNCHANGED <<silent, monitorActive, stopVars>>

\* stop_on_timeout, whose error is ignored
MonitorTriggers(m) ==
    /\ At(m, "triggering", "ended")
    /\ TriggerStop
    /\ UNCHANGED <<silent, timedOut, monitorActive, isStopped, listener, signals>>

MonitorStep(m) ==
    MonitorWakes(m) \/ MonitorLoads(m) \/ MonitorExpires(m) \/ MonitorTriggers(m)
=============================================================================
