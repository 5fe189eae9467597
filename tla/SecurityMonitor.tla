--------------------------- MODULE SecurityMonitor ---------------------------
(* SecurityMonitor (src/src/security_monitoring/engine.rs) with its rules      *)
(* (detection.rs), its baseline learner (baseline.rs) and its incidents        *)
(* (incident.rs).  The API serializes the calls on one mutex, so that a call is *)
(* one step; but the times in them are the callers', and calls may come in      *)
(* another order than their times.  Scores, severities, alerts, playbooks and   *)
(* SIEM forwarding only report what is decided here and are left out.           *)
EXTENDS ServiceClock, FiniteSetsExt

CONSTANTS
    Subjects,           \* correlation keys: principals or addresses
    Kinds,              \* kinds of events
    Threshold,          \* events of a kind within the window that make a finding;
                        \* 1: on first sight, 0: never
    RuleWindow,         \* DetectionConfig.window_secs
    LearningPeriod, BaselineExpiry, MinObservations,
    MaxObservations,    \* max_observations_per_metric
    MaxMetrics,         \* max_metrics
    CorrelationWindow,  \* CORRELATION_WINDOW_SECS
    MaxDelay            \* bound: how late a call may carry an earlier time

ASSUME BaselineConfigValid ==
    /\ LearningPeriod \in Nat \ {0} /\ BaselineExpiry \in Nat \ {0}
    /\ MinObservations \in Nat /\ MinObservations >= 2
    /\ MaxObservations \in Nat \ {0} /\ MaxMetrics \in Nat \ {0}
    /\ CorrelationWindow \in Nat
    /\ Threshold \in [Kinds -> Nat]

VARIABLES
    recent,      \* per rule and subject: times of the events in the window
    baseline,    \* the BaselineLearner
    incidents,   \* in the order in which they were opened
    openOf,      \* open_by_subject: an index of incidents, or None
    observed,    \* history: events per metric since the last reset
    learnStart,  \* history: when learning began after it
    newest,      \* history: the latest time in an event of the subject
    unordered    \* history: subjects with an event older than an earlier one

monitorVars ==
    <<recent, baseline, incidents, openOf, observed, learnStart, newest, unordered>>

Metrics == Subjects \X Kinds

None == 0

Baselines ==
    [status     : {"Learning", "Active", "Degraded"},
     started    : Times \cup {Never},
     samples    : [Metrics -> 0 .. MaxObservations],
     seen       : [Metrics -> Times \cup {Never}],
     calculated : Times \cup {Never}]

Incidents ==
    [subject : Subjects, detected : Times, status : {"Open", "Acknowledged", "Resolved"}]

Tracked(b) == {m \in Metrics : b.samples[m] > 0}

MonitorTypeOK ==
    /\ recent \in [Metrics -> Counts(Times)]
    /\ baseline \in Baselines
    /\ Cardinality(Tracked(baseline)) <= MaxMetrics
    /\ incidents \in Seq(Incidents)
    /\ openOf \in [Subjects -> {None} \cup DOMAIN incidents]
    /\ observed \in [Metrics -> Nat]
    /\ learnStart \in Times \cup {Never}
    /\ newest \in [Subjects -> Times \cup {Never}]
    /\ unordered \subseteq Subjects

\* A learner that has seen nothing, as built or as after a reset.
Learning(started) ==
    [status     |-> "Learning",
     started    |-> started,
     samples    |-> [m \in Metrics |-> 0],
     seen       |-> [m \in Metrics |-> Never],
     calculated |-> Never]

MonitorInit ==
    /\ recent = [m \in Metrics |-> NoneOf(Times)]
    /\ baseline = Learning(Never)
    /\ incidents = <<>>
    /\ openOf = [s \in Subjects |-> None]
    /\ observed = [m \in Metrics |-> 0]
    /\ learnStart = Never
    /\ newest = [s \in Subjects |-> Never]
    /\ unordered = {}

\* The times a call may carry.
Recently == {t \in Times : t <= now /\ t >= now - MaxDelay}

-----------------------------------------------------------------------------
(* The baseline *)

\* tick, with finalize: the learning period ends in a baseline if some metric has
\* enough observations; a baseline that is too old degrades; nothing but a reset
\* leaves Degraded.
Ticked(b, at) ==
    CASE b.status = "Learning" /\ b.started = Never ->
            [b EXCEPT !.started = at]
      [] b.status = "Learning" /\ b.started /= Never /\ at - b.started >= LearningPeriod ->
            IF \E m \in Metrics : b.samples[m] >= MinObservations
            THEN [b EXCEPT !.status = "Active", !.calculated = at]
            ELSE [b EXCEPT !.status = "Degraded", !.calculated = Never]
      [] b.status = "Active" /\ at - b.calculated > BaselineExpiry ->
            [b EXCEPT !.status = "Degraded"]
      [] OTHER -> b

\* evict_least_recently_seen: any of the oldest, the map has no order.
Victims(b) ==
    {v \in Tracked(b) : \A m \in Tracked(b) : b.seen[v] <= b.seen[m]}

\* What the table may be when there is room for metric m.
WithRoom(b, m) ==
    IF m \in Tracked(b) \/ Cardinality(Tracked(b)) < MaxMetrics
    THEN {b}
    ELSE {[b EXCEPT !.samples[v] = 0, !.seen[v] = Never] : v \in Victims(b)}

\* record: a baseline that is active is fixed.
Recorded(b, m, at) ==
    IF b.status = "Active"
    THEN {b}
    ELSE {[room EXCEPT !.samples[m] = IF @ < MaxObservations THEN @ + 1 ELSE @,
                       !.seen[m] = at] : room \in WithRoom(b, m)}

-----------------------------------------------------------------------------
(* Rules, incidents, and the calls *)

\* record_and_count
Counted(times, at) == Within(Pushed(times, at), RuleWindow, at)

Finds(m, at) ==
    LET threshold == Threshold[m[2]]
    IN  threshold > 0 /\ Total(Counted(recent[m], at)) >= threshold

\* The subject's indexed incident takes the finding.
Correlates(s, at) ==
    /\ openOf[s] /= None
    /\ incidents[openOf[s]].status /= "Resolved"
    /\ at - incidents[openOf[s]].detected <= CorrelationWindow

OpenIncident(s, at) ==
    /\ incidents' = Append(incidents, [subject |-> s, detected |-> at, status |-> "Open"])
    /\ openOf' = [openOf EXCEPT ![s] = Len(incidents) + 1]

\* ingest
Ingest(s, k, at) ==
    /\ Begin
    /\ recent' = [recent EXCEPT ![<<s, k>>] =
            IF Threshold[k] > 1 THEN Counted(@, at) ELSE @]
    /\ baseline' \in Recorded(Ticked(baseline, at), <<s, k>>, at)
    /\ IF baseline'.status = "Active" /\ Finds(<<s, k>>, at) /\ ~Correlates(s, at)
       THEN OpenIncident(s, at)
       ELSE UNCHANGED <<incidents, openOf>>
    /\ observed' = [observed EXCEPT ![<<s, k>>] = @ + 1]
    /\ learnStart' = IF learnStart = Never THEN at ELSE learnStart
    /\ newest' = [newest EXCEPT ![s] = IF at > @ THEN at ELSE @]
    /\ unordered' = IF at < newest[s] THEN unordered \cup {s} ELSE unordered

\* Mutant: a reset that keeps the observations.
LearningWithSamples(at) == [Learning(at) EXCEPT !.samples = baseline.samples,
                                                !.seen = baseline.seen]

\* reset, and the tick that ends Resetting
FreshLearning(at) == Learning(at)

\* reset_baseline: the time was read before the mutex was taken.
ResetBaseline(at) ==
    /\ Begin
    /\ baseline' = FreshLearning(at)
    /\ observed' = [m \in Metrics |-> 0]
    /\ learnStart' = at
    /\ UNCHANGED <<recent, incidents, openOf, newest, unordered>>

Acknowledge(i) ==
    /\ Begin
    /\ incidents[i].status = "Open"
    /\ incidents' = [incidents EXCEPT ![i].status = "Acknowledged"]
    /\ UNCHANGED <<recent, baseline, openOf, observed, learnStart, newest, unordered>>

\* Mutant: the subject leaves the index whichever incident it is of.
ClearedSubject(i) == [openOf EXCEPT ![incidents[i].subject] = None]

ClearedIndex(i) == [s \in Subjects |-> IF openOf[s] = i THEN None ELSE openOf[s]]

Resolve(i) ==
    /\ Begin
    /\ incidents' = [incidents EXCEPT ![i].status = "Resolved"]
    /\ openOf' = ClearedIndex(i)
    /\ UNCHANGED <<recent, baseline, observed, learnStart, newest, unordered>>

MonitorNext ==
    \/ \E at \in Recently :
        \/ \E s \in Subjects, k \in Kinds : Ingest(s, k, at)
        \/ ResetBaseline(at)
    \/ \E i \in DOMAIN incidents : Acknowledge(i) \/ Resolve(i)

-----------------------------------------------------------------------------
\* An incident is opened only under a baseline learnt since the last reset: a whole
\* learning period of it, enough events of some metric, and not expired; whatever
\* order events, evictions and resets came in (tick, finalize, record, reset).
IncidentsNeedBaseline ==
    [][Len(incidents') > Len(incidents) =>
        /\ baseline'.calculated - learnStart >= LearningPeriod
        /\ Last(incidents').detected - baseline'.calculated <= BaselineExpiry
        /\ \E m \in Metrics : observed[m] >= MinObservations]_monitorVars

\* Two incidents of a subject that nobody has resolved were detected further apart
\* than the correlation window, whichever of them were acknowledged or resolved
\* between, unless an event of the subject came after a newer one
\* (correlate, resolve).
SubjectHasOneIncident ==
    \A i, j \in DOMAIN incidents :
        /\ i < j
        /\ incidents[i].subject = incidents[j].subject
        /\ incidents[i].subject \notin unordered
        /\ "Resolved" \notin {incidents[i].status, incidents[j].status}
        => incidents[j].detected - incidents[i].detected > CorrelationWindow
=============================================================================
