CONSTANTS
    MaxTime = 5
    MaxCalls = 7
    Subjects = {s1}
    Kinds = {"failure", "attack"}
    Threshold <- Thresholds
    RuleWindow = 2
    LearningPeriod = 1
    BaselineExpiry = 3
    MinObservations = 2
    MaxObservations = 2
    MaxMetrics = 1
    CorrelationWindow = 1
    MaxDelay = 1
    Users = {u1, u2, u3}
    Scans = {i1}
    MaxRecipients = 2
    DefaultExpiry = 1
    MaxExpiry = 2
    NoScan = NoScan
    Contents <- Events
    HashedText <- JoinedText
    MaxEntries = 3
SPECIFICATION Spec
SYMMETRY Symmetry
INVARIANTS
    TypeOK
    SubjectHasOneIncident
    AccessFollowsShares
    ChainTellsTampering
PROPERTY IncidentsNeedBaseline
CHECK_DEADLOCK FALSE
