--------------------------- MODULE AccountLockout ----------------------------
(* AccountLockoutService over the in-memory store                              *)
(* (src/src/auth/account_lockout.rs).  A record keeps the failed attempts of   *)
(* the window, the current lockout and a permanent lock; addresses, reasons    *)
(* and totals are left out.                                                    *)
EXTENDS AuthClock

CONSTANTS
    Accounts,       \* the user_id of the calls: a user's id or e-mail address
    MaxAttempts,    \* LockoutConfig.max_attempts
    LockWindow,     \* LockoutConfig.window_minutes
    LockDurations,  \* lockout_duration times each of lockout_multipliers
    RecordAge,      \* cleanup_expired keeps an attempt for 24 hours
    NoRecord

ASSUME LockConfig ==
    /\ MaxAttempts \in Nat \ {0}
    /\ LockWindow \in Nat \ {0}
    /\ LockDurations \in Seq(Nat \ {0}) /\ LockDurations /= <<>>
    /\ RecordAge \in Nat /\ RecordAge >= LockWindow

VARIABLES
    records,     \* the store
    lockCalls,   \* the call each caller is in
    failures,    \* history: attempts counted since the last reset of the user
    lockRaced    \* history: users whose record was saved over a change made
                 \* after it was read

lockVars == <<records, lockCalls, failures, lockRaced>>

LockRecords ==
    [attempts : Counts(Times), until : Int, count : 0 .. Len(LockDurations),
     permanent : BOOLEAN]

ASSUME LockMark == NoRecord \notin LockRecords

LockOps == {"fail", "reset", "lock", "unlock"}

LockCalls ==
    [op : LockOps, user : Accounts, at : Times, read : LockRecords \cup {NoRecord}]

ASSUME LockCallMark == Idle \notin LockCalls

LockTypeOK ==
    /\ records \in [Accounts -> LockRecords \cup {NoRecord}]
    /\ lockCalls \in [Callers -> {Idle} \cup LockCalls]
    /\ failures \in [Accounts -> Counts(Times)]
    /\ lockRaced \subseteq Accounts

LockInit ==
    /\ records = [u \in Accounts |-> NoRecord]
    /\ lockCalls = [c \in Callers |-> Idle]
    /\ failures = [u \in Accounts |-> NoneOf(Times)]
    /\ lockRaced = {}

NewRecord ==
    [attempts |-> NoneOf(Times), until |-> Never, count |-> 0, permanent |-> FALSE]

OrNew(record) == IF record = NoRecord THEN NewRecord ELSE record

IsPermanent(record) == record /= NoRecord /\ record.permanent

\* The answer at once, without a save: nothing to reset or unlock; an account
\* permanently locked counts no attempt.
AnswersAtOnce(op, record) ==
    \/ op \in {"reset", "unlock"} /\ record = NoRecord
    \/ op = "fail" /\ IsPermanent(record)

\* get_record of the four operations that save.
LockRead(c, op, u) ==
    /\ Begin
    /\ lockCalls[c] = Idle
    /\ ~AnswersAtOnce(op, records[u])
    /\ lockCalls' = [lockCalls EXCEPT ![c] =
            [op |-> op, user |-> u, at |-> now, read |-> records[u]]]
    /\ UNCHANGED <<records, failures, lockRaced>>

\* The lockout that starts at the n-th time; past the last multiplier the last
\* one stays, so the count is kept no higher.
LockDuration(n) == LockDurations[n]

NextCount(record) ==
    IF record.count < Len(LockDurations) THEN record.count + 1 ELSE record.count

\* record_failed_attempt
WithFailure(record, at) ==
    LET recent == Pushed(Within(record.attempts, LockWindow, at), at)
    IN  IF Total(recent) < MaxAttempts
        THEN [record EXCEPT !.attempts = recent]
        ELSE [record EXCEPT !.attempts = recent,
                            !.count = NextCount(record),
                            !.until = at + LockDuration(NextCount(record))]

\* Mutant: a successful login lifts the permanent lock as well.
ClearedAll(record) == [NewRecord EXCEPT !.count = record.count]

\* reset_failed_attempts
Cleared(record) == [record EXCEPT !.attempts = NoneOf(Times), !.until = Never]

Computed(call) ==
    LET record == OrNew(call.read)
    IN  CASE call.op = "fail"   -> WithFailure(record, call.at)
          [] call.op = "reset"  -> Cleared(record)
          [] call.op = "lock"   -> [record EXCEPT !.permanent = TRUE]
          [] call.op = "unlock" -> [Cleared(record) EXCEPT !.permanent = FALSE]

LockSave(c) ==
    LET call == lockCalls[c]
        u    == call.user
    IN  /\ call /= Idle
        /\ records' = [records EXCEPT ![u] = Computed(call)]
        /\ lockCalls' = [lockCalls EXCEPT ![c] = Idle]
        /\ failures' = [failures EXCEPT ![u] =
                CASE call.op = "fail" -> Pushed(@, call.at)
                  [] call.op = "lock" -> @
                  [] OTHER            -> NoneOf(Times)]
        /\ lockRaced' = IF call.read = records[u] THEN lockRaced
                                                  ELSE lockRaced \cup {u}
        /\ UNCHANGED clockVars

\* Mutant: a record goes with its lockout.
KeptWhileLocked(record) == record.until > now

\* cleanup_expired looks at the attempts and the lockout, not at the permanent
\* lock.
LockKept(record) ==
    \/ AnyWithin(record.attempts, RecordAge, now)
    \/ record.until > now

LockCleanup ==
    /\ \E u \in Accounts : records[u] /= NoRecord /\ ~LockKept(records[u])
    /\ records' = [u \in Accounts |->
            IF records[u] /= NoRecord /\ LockKept(records[u]) THEN records[u] ELSE NoRecord]
    /\ UNCHANGED <<lockCalls, failures, lockRaced, clockVars>>

LockNext ==
    \/ \E c \in Callers : LockSave(c) \/ \E op \in LockOps, u \in Accounts : LockRead(c, op, u)
    \/ LockCleanup

\* check_account_status, as the middleware reads it
AccountLocked(u) ==
    records[u] /= NoRecord /\ (records[u].permanent \/ records[u].until > now)

\* can_attempt_login
MayAttemptLogin(u) ==
    ~AccountLocked(u) /\
    (records[u] /= NoRecord => Total(Within(records[u].attempts, LockWindow, now)) < MaxAttempts)

-----------------------------------------------------------------------------
\* An account that has failed max_attempts times within the window may not try to
\* log in, whatever cleanups, permanent locks and unlocks came between, unless two
\* calls for the account overlapped and one saved over the other
\* (record_failed_attempt, can_attempt_login, cleanup_expired).
EnoughFailuresDenyLogin ==
    \A u \in Accounts \ lockRaced :
        Total(Within(failures[u], LockWindow, now)) >= MaxAttempts => ~MayAttemptLogin(u)

\* A permanent lock goes only by an unlock, by a cleanup, or by a call that had
\* read the record before the lock and saves what it made of it.
PermanentLockIsKept ==
    [][\A u \in Accounts :
        IsPermanent(records[u]) /\ ~IsPermanent(records'[u]) =>
            \/ records'[u] = NoRecord
            \/ \E c \in Callers :
                /\ lockCalls[c] /= Idle /\ lockCalls'[c] = Idle
                /\ \/ lockCalls[c].op = "unlock"
                   \/ ~IsPermanent(lockCalls[c].read)]_lockVars
=============================================================================
