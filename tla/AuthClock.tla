------------------------------ MODULE AuthClock ------------------------------
(* The users and the callers (tasks of the server) of the services of          *)
(* src/src/auth.  Their functions are async: one reads a record from its store, *)
(* awaits, and later saves the record it has computed; between the two, other   *)
(* callers run.                                                                *)
EXTENDS ServiceClock

CONSTANTS
    Users,
    Callers,   \* tasks that call the services
    Idle       \* a caller in no call
=============================================================================
