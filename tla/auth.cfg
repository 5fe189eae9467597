CONSTANTS
    Users = {u1, u2}
    Callers = {c1, c2}
    Idle = Idle
    MaxTime = 4
    MaxCalls = 5
    Accounts = {a1}
    MaxAttempts = 2
    LockWindow = 2
    LockDurations <- TwoDurations
    RecordAge = 3
    NoRecord = NoRecord
    Sessions = {s1, s2}
    SessionTtl = 2
    NoSession = NoSession
    Tokens = {t1, t2}
    AccessTtl = 2
    RefreshTtl = 3
    Leeway = 1
    NoToken = NoToken
    Keys = {k1}
    MaxRequests = 2
    LimitWindow = 2
    Penalty = 1
    RequestAge = 3
    NoLimit = NoLimit
SPECIFICATION Spec
SYMMETRY Symmetry
INVARIANTS
    TypeOK
    EnoughFailuresDenyLogin
    RevokedSessionsStayRevoked
    RevokedTokensAreRejected
    NoWindowOverLimit
PROPERTY PermanentLockIsKept
CHECK_DEADLOCK FALSE
