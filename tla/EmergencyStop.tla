---------------------------- MODULE EmergencyStop ----------------------------
(* The emergency stop of one scanner process (src/src/emergency_stop.rs): a    *)
(* flag every scan loop polls, a channel of stop commands, the listener thread *)
(* that turns the FIRST command into the flag and then ends, and the thread    *)
(* that turns a signal into a command.  The commands differ only in what is    *)
(* logged and all but the first are dropped with the receiver, so the channel  *)
(* is whether a command awaits the listener.                                  *)
(*                                                                            *)
(* trigger_stop reads the flag before it sends.  The flag may be set between,   *)
(* but then the listener has its command already, and the send changes nothing: *)
(* a trigger is one step.                                                      *)
EXTENDS Naturals

VARIABLES
    isStopped,   \* the AtomicBool of EmergencyStop
    channel,     \* a command awaits the listener
    listener,    \* progress of emergency_stop_listener
    signals      \* the signal thread sends one command, then ends

stopVars == <<isStopped, channel, listener, signals>>

StopTypeOK ==
    /\ isStopped \in BOOLEAN
    /\ channel \in BOOLEAN
    /\ listener \in {"waiting", "received", "ended"}
    /\ signals \in {"armed", "ended"}

\* EmergencyStop::new
StopInit ==
    /\ isStopped = FALSE
    /\ channel = FALSE
    /\ listener = "waiting"
    /\ signals = "armed"

\* The process ends, its threads and its channel with it.
ForgetStop ==
    /\ isStopped' = FALSE
    /\ channel' = FALSE
    /\ listener' = "waiting"
    /\ signals' = "armed"

\* Sender::send.  Nobody will receive what is sent after the first command was
\* received, and 100 ms after the flag is set the send itself fails.
Send == channel' = (listener = "waiting")

TriggerStop == IF isStopped THEN UNCHANGED channel ELSE Send

SignalArrives ==
    /\ signals = "armed"
    /\ signals' = "ended"
    /\ Send
    /\ UNCHANGED <<isStopped, listener>>

ListenerReceives ==
    /\ listener = "waiting"
    /\ channel
    /\ channel' = FALSE
    /\ listener' = "received"
    /\ UNCHANGED <<isStopped, signals>>

ListenerSetsFlag ==
    /\ listener = "received"
    /\ isStopped' = TRUE
    /\ listener' = "ended"
    /\ UNCHANGED <<channel, signals>>

ListenerStep == ListenerReceives \/ ListenerSetsFlag
=============================================================================
