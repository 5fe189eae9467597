---------------------------- MODULE RequestLimit -----------------------------
(* RateLimitService over the in-memory store (src/src/auth/rate_limit.rs): a   *)
(* sliding window of request times per key, with a penalty block.             *)
EXTENDS AuthClock

CONSTANTS
    Keys,
    MaxRequests,   \* RateLimitConfig.max_requests
    LimitWindow,   \* RateLimitConfig.window_seconds
    Penalty,       \* penalty_seconds, or Never when there is none
    RequestAge,    \* cleanup_expired keeps a request for an hour
    NoLimit        \* a key without a record

ASSUME LimitConfig ==
    /\ MaxRequests \in Nat \ {0}
    /\ LimitWindow \in Nat \ {0}
    /\ Penalty \in Nat \cup {Never}
    /\ RequestAge \in Nat /\ RequestAge >= LimitWindow

VARIABLES
    limits,      \* the store
    limitCalls,  \* the check each caller is in
    granted,     \* history: times of the requests allowed since the last reset
    limitRaced   \* history: keys whose record was saved over a change, or
                 \* cleaned up between the read and the save of a check

limitVars == <<limits, limitCalls, granted, limitRaced>>

\* A record never holds more requests than the limit.
LimitRecords ==
    [requests     : {list \in Counts(Times) : Total(list) <= MaxRequests},
     blockedUntil : Int]

LimitCalls == [key : Keys, at : Times, read : LimitRecords \cup {NoLimit}]

ASSUME LimitMarks == NoLimit \notin LimitRecords /\ Idle \notin LimitCalls

LimitTypeOK ==
    /\ limits \in [Keys -> LimitRecords \cup {NoLimit}]
    /\ limitCalls \in [Callers -> {Idle} \cup LimitCalls]
    /\ granted \in [Keys -> Counts(Times)]
    /\ limitRaced \subseteq Keys

LimitInit ==
    /\ limits = [k \in Keys |-> NoLimit]
    /\ limitCalls = [c \in Callers |-> Idle]
    /\ granted = [k \in Keys |-> NoneOf(Times)]
    /\ limitRaced = {}

\* The record with which a check goes on: a block that is over is forgotten, and
\* so are requests out of the window.
Current(record, at) ==
    IF record = NoLimit
    THEN [requests |-> NoneOf(Times), blockedUntil |-> Never]
    ELSE [requests     |-> Within(record.requests, LimitWindow, at),
          blockedUntil |-> IF record.blockedUntil > at THEN record.blockedUntil ELSE Never]

Blocked(record, at) == Current(record, at).blockedUntil /= Never

\* Mutant: one request too many fits.
FullPastLimit(record, at) == Total(Current(record, at).requests) > MaxRequests

Full(record, at) == Total(Current(record, at).requests) >= MaxRequests

\* check_rate_limit up to its save.  A key that is blocked, or over the limit when
\* there is no penalty, is denied without one.
LimitRead(c, k) ==
    /\ Begin
    /\ limitCalls[c] = Idle
    /\ ~Blocked(limits[k], now)
    /\ Full(limits[k], now) => Penalty /= Never
    /\ limitCalls' = [limitCalls EXCEPT ![c] = [key |-> k, at |-> now, read |-> limits[k]]]
    /\ UNCHANGED <<limits, granted, limitRaced>>

\* The save: of a penalty, or of one more request, which is then allowed.
LimitSave(c) ==
    LET call == limitCalls[c]
        k    == call.key
        full == Full(call.read, call.at)
        kept == Current(call.read, call.at)
    IN  /\ call /= Idle
        /\ limits' = [limits EXCEPT ![k] =
                IF full THEN [kept EXCEPT !.blockedUntil = call.at + Penalty]
                        ELSE [kept EXCEPT !.requests = Pushed(@, call.at)]]
        /\ granted' = IF full THEN granted ELSE [granted EXCEPT ![k] = Pushed(@, call.at)]
        /\ limitRaced' = IF call.read = limits[k] THEN limitRaced ELSE limitRaced \cup {k}
        /\ limitCalls' = [limitCalls EXCEPT ![c] = Idle]
        /\ UNCHANGED clockVars

\* reset deletes the record.
LimitReset(k) ==
    /\ Begin
    /\ limits[k] /= NoLimit
    /\ limits' = [limits EXCEPT ![k] = NoLimit]
    /\ granted' = [granted EXCEPT ![k] = NoneOf(Times)]
    /\ UNCHANGED <<limitCalls, limitRaced>>

\* Mutant: a key that is not blocked is dropped with its requests.
KeptWhileBlocked(record) == record.blockedUntil > now

LimitKept(record) ==
    AnyWithin(record.requests, RequestAge, now) \/ record.blockedUntil > now

Aged == {k \in Keys : limits[k] /= NoLimit /\ ~LimitKept(limits[k])}

UnderCheck == {k \in Keys : \E c \in Callers : limitCalls[c] /= Idle /\ limitCalls[c].key = k}

LimitCleanup ==
    /\ Aged /= {}
    /\ limits' = [k \in Keys |-> IF k \in Aged THEN NoLimit ELSE limits[k]]
    /\ limitRaced' = limitRaced \cup (Aged \cap UnderCheck)
    /\ UNCHANGED <<limitCalls, granted, clockVars>>

LimitNext ==
    \/ \E c \in Callers : LimitSave(c) \/ \E k \in Keys : LimitRead(c, k)
    \/ \E k \in Keys : LimitReset(k)
    \/ LimitCleanup

-----------------------------------------------------------------------------
\* The requests allowed in the window that begins at `start`.
GrantedFrom(k, start) ==
    [t \in Times |->
        IF t >= start /\ t < start + LimitWindow THEN granted[k][t] ELSE 0]

\* Between two resets of a key, no window of time, wherever it begins, holds more
\* than max_requests allowed requests, through penalties and cleanups, unless two
\* checks of the key overlapped and one saved over the other (check_rate_limit).
NoWindowOverLimit ==
    \A k \in Keys \ limitRaced : \A start \in Times :
        Total(GrantedFrom(k, start)) <= MaxRequests
=============================================================================
