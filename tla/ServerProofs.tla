---------------------------- MODULE ServerProofs -----------------------------
(***************************************************************************)
(* Proofs about ServerServices, for any subjects, users, contents, windows  *)
(* and bounds.                                                             *)
(***************************************************************************)
EXTENDS ServerServices, SequenceTheorems, SumProofs, TLAPS

(* A step is one of the service it exercises, or leaves that service alone. *)
LEMMA OneService ==
    ASSUME [Next]_vars
    PROVE  /\ MonitorNext \/ UNCHANGED monitorVars
           /\ AuditNext \/ UNCHANGED auditVars
           /\ AccessNext \/ UNCHANGED accessVars
BY DEF Next, vars

(***************************************************************************)
(* The audit trail                                                         *)
(***************************************************************************)

\* The hashes are linked whatever was edited, an entry's hash covers the text of the
\* content it was linked with, and without an edit that content is still there.
ChainInv ==
    /\ entries \in Seq(Entries)
    /\ linked \in Seq(Contents) /\ Len(linked) = Len(entries)
    /\ untouched \in BOOLEAN
    /\ \A i \in DOMAIN entries :
           /\ entries[i].previous = IF i = 1 THEN NoHash ELSE entries[i - 1].hash
           /\ entries[i].hash = Hash(linked[i], entries[i].previous)
           /\ untouched => entries[i].content = linked[i]

LEMMA ChainInvInit == Init => ChainInv
BY DEF Init, AuditInit, ChainInv

(* What a new entry is made of.                                            *)
LEMMA LinkedType ==
    ASSUME NEW content \in Contents, NEW previous \in Hashes
    PROVE  /\ Linked(content, previous) \in Entries
           /\ Linked(content, previous).previous = previous
           /\ Linked(content, previous).hash = Hash(content, previous)
           /\ Linked(content, previous).content = content
           /\ Hash(content, previous) \in Hashes
<1>1. HashedText[content] \in Texts
    BY DEF Texts
<1> QED BY <1>1 DEF Linked, Entries, Hash, Hashes

LEMMA RebuiltIsAChain ==
    ASSUME NEW list \in Seq(Entries)
    PROVE  /\ Rebuilt(list) \in Seq(Entries)
           /\ \A i \in DOMAIN Rebuilt(list) :
                /\ Rebuilt(list)[i].previous =
                        IF i = 1 THEN NoHash ELSE Rebuilt(list)[i - 1].hash
                /\ Rebuilt(list)[i].hash =
                        Hash(Rebuilt(list)[i].content, Rebuilt(list)[i].previous)
                /\ Rebuilt(list)[i].content = list[i].content
           /\ DOMAIN Rebuilt(list) = DOMAIN list
<1> DEFINE new == Rebuilt(list)
<1>0. Len(list) \in Nat /\ \A k \in 1 .. Len(list) : list[k].content \in Contents
    <2>1. Len(list) \in Nat /\ \A k \in 1 .. Len(list) : list[k] \in Entries
        OBVIOUS
    <2> QED BY <2>1 DEF Entries
<1>1. ASSUME NEW i \in 0 .. Len(list)
      PROVE  HashAfter(list, i) \in Hashes
    <2>1. i \in Nat /\ \A k \in 1 .. i : HashedText[list[k].content] \in Texts
        BY <1>0 DEF Texts
    <2> QED BY <2>1 DEF HashAfter, Hashes
<1>2. \A i \in 1 .. Len(list) :
        /\ new[i] = Linked(list[i].content, HashAfter(list, i - 1))
        /\ list[i].content \in Contents
        /\ HashAfter(list, i - 1) \in Hashes
    <2>1. DOMAIN list = 1 .. Len(list) /\ \A i \in 1 .. Len(list) : i - 1 \in 0 .. Len(list)
        BY <1>0
    <2> QED BY <1>0, <1>1, <2>1 DEF Rebuilt
<1>3. /\ Len(list) \in Nat /\ DOMAIN new = 1 .. Len(list) /\ DOMAIN list = 1 .. Len(list)
      /\ new = [i \in 1 .. Len(list) |-> new[i]]
    BY DEF Rebuilt
<1> HIDE DEF new
<1>4. \A i \in 1 .. Len(list) :
        /\ new[i] \in Entries
        /\ new[i].previous = HashAfter(list, i - 1)
        /\ new[i].hash = Hash(list[i].content, HashAfter(list, i - 1))
        /\ new[i].content = list[i].content
    BY <1>2, LinkedType
<1>5. new \in Seq(Entries)
    BY <1>3, <1>4
<1>6. HashAfter(list, 0) = NoHash
    BY DEF HashAfter, NoHash
<1>7. \A i \in 2 .. Len(list) :
        HashAfter(list, i - 1) = Hash(list[i - 1].content, HashAfter(list, i - 2))
    BY DEF HashAfter, Hash
<1>8. ASSUME NEW i \in 1 .. Len(list)
      PROVE  new[i].previous = IF i = 1 THEN NoHash ELSE new[i - 1].hash
    <2>1. CASE i = 1
        BY <1>4, <1>6, <2>1
    <2>2. CASE i # 1
        BY <1>3, <1>4, <1>7, <2>2
    <2> QED BY <2>1, <2>2
<1> QED BY <1>3, <1>4, <1>5, <1>8 DEF new

LEMMA RecordKeepsChain ==
    ASSUME ChainInv, AuditConfig, NEW content \in Contents, Record(content)
    PROVE  ChainInv'
<1> DEFINE longer == Append(entries, Linked(content, LastHash))
<1>1. LastHash \in Hashes
    <2>1. CASE entries = <<>>
        BY <2>1 DEF LastHash, NoHash, Hashes
    <2>2. CASE entries # <<>>
        <3>1. entries[Len(entries)] \in Entries
            BY <2>2 DEF ChainInv
        <3> QED BY <2>2, <3>1 DEF LastHash, Last, Entries
    <2> QED BY <2>1, <2>2
<1>2. /\ Linked(content, LastHash) \in Entries
      /\ Linked(content, LastHash).previous = LastHash
      /\ Linked(content, LastHash).hash = Hash(content, LastHash)
      /\ Linked(content, LastHash).content = content
    BY <1>1, LinkedType
<1>3. /\ longer \in Seq(Entries) /\ Len(longer) = Len(entries) + 1
      /\ \A i \in DOMAIN entries : longer[i] = entries[i]
      /\ longer[Len(entries) + 1] = Linked(content, LastHash)
    BY <1>2 DEF ChainInv
<1> DEFINE kept == Tail(longer)
<1>6. kept \in Seq(Entries)
    BY <1>3
<1>7. untouched' = untouched /\ untouched \in BOOLEAN
    BY DEF Record, ChainInv
<1> HIDE DEF longer, kept
<1>4. CASE entries' = longer /\ linked' = Append(linked, content)
    <2>1. DOMAIN longer = 1 .. Len(entries) + 1 /\ DOMAIN entries = 1 .. Len(entries)
          /\ Len(entries) \in Nat
        BY <1>3 DEF ChainInv
    <2>2. /\ linked' \in Seq(Contents) /\ Len(linked') = Len(longer)
          /\ linked'[Len(entries) + 1] = content
          /\ \A i \in DOMAIN entries : linked'[i] = linked[i]
        BY <1>3, <1>4, <2>1 DEF ChainInv
    <2>3. ASSUME NEW i \in DOMAIN longer
          PROVE  /\ longer[i].previous = IF i = 1 THEN NoHash ELSE longer[i - 1].hash
                 /\ longer[i].hash = Hash(linked'[i], longer[i].previous)
                 /\ untouched => longer[i].content = linked'[i]
        <3>1. CASE i \in DOMAIN entries
            BY <1>3, <2>1, <2>2, <3>1 DEF ChainInv
        <3>2. CASE i = Len(entries) + 1
            <4>1. longer[i] = Linked(content, LastHash)
                BY <1>3, <3>2
            <4>2. LastHash = IF i = 1 THEN NoHash ELSE entries[i - 1].hash
                BY <2>1, <3>2 DEF ChainInv, LastHash, Last
            <4>3. i # 1 => longer[i - 1] = entries[i - 1]
                BY <1>3, <2>1, <3>2
            <4> QED BY <1>2, <2>2, <3>2, <4>1, <4>2, <4>3
        <3> QED BY <2>1, <3>1, <3>2
    <2> QED BY <1>3, <1>4, <1>7, <2>2, <2>3 DEF ChainInv
<1>5. CASE /\ entries' = Rebuilt(kept)
           /\ linked' = [i \in DOMAIN kept |-> kept[i].content]
    <2>1. /\ entries' \in Seq(Entries) /\ DOMAIN entries' = DOMAIN kept
          /\ \A i \in DOMAIN entries' :
                /\ entries'[i].previous = IF i = 1 THEN NoHash ELSE entries'[i - 1].hash
                /\ entries'[i].hash = Hash(entries'[i].content, entries'[i].previous)
                /\ entries'[i].content = kept[i].content
        BY <1>5, <1>6, RebuiltIsAChain
    <2>2. DOMAIN kept = 1 .. Len(kept) /\ Len(kept) \in Nat /\ Len(entries') = Len(kept)
        BY <1>6, <2>1
    <2>3. \A i \in DOMAIN kept : kept[i].content \in Contents
        <3>1. \A i \in DOMAIN kept : kept[i] \in Entries
            BY <1>6
        <3> QED BY <3>1 DEF Entries
    <2>4. linked' \in Seq(Contents) /\ Len(linked') = Len(kept)
        BY <1>5, <2>2, <2>3
    <2>5. \A i \in DOMAIN entries' : linked'[i] = entries'[i].content
        BY <1>5, <2>1
    <2> QED BY <1>7, <2>1, <2>2, <2>4, <2>5 DEF ChainInv
<1> QED BY <1>4, <1>5 DEF Record, longer, kept

(* Changed content leaves the hashes, and what they were linked with.         *)
LEMMA TamperKeepsChain ==
    ASSUME ChainInv, NEW i \in DOMAIN entries, NEW content \in Contents, Tamper(i, content)
    PROVE  ChainInv'
<1>1. /\ entries' = [entries EXCEPT ![i].content = content]
      /\ untouched' = FALSE /\ linked' = linked
    BY DEF Tamper
<1>2. entries \in [1 .. Len(entries) -> Entries] /\ Len(entries) \in Nat
      /\ DOMAIN entries = 1 .. Len(entries)
    BY DEF ChainInv
<1>3. /\ [entries[i] EXCEPT !.content = content] \in Entries
      /\ [entries[i] EXCEPT !.content = content].hash = entries[i].hash
      /\ [entries[i] EXCEPT !.content = content].previous = entries[i].previous
    BY <1>2 DEF Entries
<1>4. /\ entries'[i] = [entries[i] EXCEPT !.content = content]
      /\ \A j \in DOMAIN entries \ {i} : entries'[j] = entries[j]
      /\ DOMAIN entries' = DOMAIN entries
      /\ entries' \in [1 .. Len(entries) -> Entries]
    BY <1>1, <1>2, <1>3
<1>5. entries' \in Seq(Entries) /\ Len(entries') = Len(entries)
    BY <1>2, <1>4
<1>6. \A j \in DOMAIN entries :
        entries'[j].previous = entries[j].previous /\ entries'[j].hash = entries[j].hash
    BY <1>3, <1>4
<1>7. \A j \in DOMAIN entries :
        entries'[j].previous = IF j = 1 THEN NoHash ELSE entries'[j - 1].hash
    <2>1. \A j \in DOMAIN entries : j # 1 => j - 1 \in DOMAIN entries
        BY <1>2
    <2> QED BY <1>6, <2>1 DEF ChainInv
<1>8. \A j \in DOMAIN entries :
        entries'[j].hash = Hash(linked'[j], entries'[j].previous)
    BY <1>1, <1>6 DEF ChainInv
<1>9. linked' \in Seq(Contents) /\ Len(linked') = Len(entries')
    BY <1>1, <1>5 DEF ChainInv
<1> QED BY <1>1, <1>4, <1>5, <1>7, <1>8, <1>9 DEF ChainInv

(* Two contents that hash alike after the same hash have one text.            *)
LEMMA HashCoversText ==
    ASSUME NEW c \in Contents, NEW d \in Contents, NEW previous \in Hashes,
           Hash(c, previous) = Hash(d, previous)
    PROVE  HashedText[c] = HashedText[d]
<1>1. HashedText[c] \in Texts /\ HashedText[d] \in Texts
    BY DEF Texts
<1> QED BY <1>1, AppendInjective DEF Hash, Hashes

LEMMA ChainInvHolds == Spec => []ChainInv
<1>1. ChainInv /\ [Next]_vars => ChainInv'
    <2> SUFFICES ASSUME ChainInv, [Next]_vars PROVE ChainInv'
        OBVIOUS
    <2>1. CASE UNCHANGED auditVars
        BY <2>1 DEF auditVars, ChainInv
    <2>2. CASE AuditNext
        BY <2>2, AuditConfig, RecordKeepsChain, TamperKeepsChain DEF AuditNext
    <2> QED BY <2>1, <2>2, OneService
<1> QED BY <1>1, ChainInvInit, PTL DEF Spec

(* For any way the fields are joined into the hashed text: a trail nobody changed *)
(* always verifies, whatever is recorded and evicted, and a trail that verifies   *)
(* holds in every entry the text that entry was last linked with.                *)
THEOREM ChainShowsTampering == Spec => []ChainTellsTampering
<1>1. ChainInv => ChainTellsTampering
    <2> SUFFICES ASSUME ChainInv PROVE ChainTellsTampering
        OBVIOUS
    <2>1. untouched => ChainIntact
        BY DEF ChainInv, ChainIntact
    <2>2. ASSUME ChainIntact, NEW i \in DOMAIN entries
          PROVE  HashedText[entries[i].content] = HashedText[linked[i]]
        <3>1. /\ entries[i] \in Entries /\ linked[i] \in Contents
              /\ Hash(entries[i].content, entries[i].previous)
                    = Hash(linked[i], entries[i].previous)
            BY <2>2 DEF ChainInv, ChainIntact
        <3> QED BY <3>1, HashCoversText DEF Entries
    <2> QED BY <2>1, <2>2 DEF ChainTellsTampering
<1> QED BY <1>1, ChainInvHolds, PTL

(***************************************************************************)
(* The baseline                                                            *)
(***************************************************************************)

LEMMA ClockStep ==
    ASSUME now \in Times, [Next]_vars
    PROVE  now' \in Times
<1>1. CASE Tick
    BY <1>1, BoundsNat DEF Tick, Times
<1>2. CASE now' = now
    BY <1>2
<1>3. now' = now \/ Tick
    BY DEF Next, vars, clockVars, Begin, MonitorNext, Ingest, ResetBaseline, Acknowledge, Resolve,
           AccessNext, RegisterScan, RevokeShare, ShareScan, AuditNext, Record, Tamper
<1> QED BY <1>1, <1>2, <1>3

\* A learner began when learning began after the last reset, has no more samples
\* than there were events, and is active only after a learning period that saw
\* enough of some metric.
BaselineInv ==
    /\ baseline \in Baselines
    /\ observed \in [Metrics -> Nat]
    /\ learnStart \in Times \cup {Never}
    /\ baseline.started = learnStart
    /\ \A m \in Metrics : baseline.samples[m] <= observed[m]
    /\ baseline.status # "Learning" => learnStart # Never
    /\ baseline.status = "Active" =>
        /\ baseline.calculated # Never
        /\ baseline.calculated - learnStart >= LearningPeriod
        /\ \E m \in Metrics : observed[m] >= MinObservations

LEMMA LearningType ==
    ASSUME NEW t \in Times \cup {Never}
    PROVE  /\ Learning(t) \in Baselines
           /\ Learning(t).status = "Learning"
           /\ Learning(t).started = t
           /\ \A m \in Metrics : Learning(t).samples[m] = 0
<1>1. 0 \in 0 .. MaxObservations
    BY BaselineConfigValid
<1>2. /\ [m \in Metrics |-> 0] \in [Metrics -> 0 .. MaxObservations]
      /\ [m \in Metrics |-> Never] \in [Metrics -> Times \cup {Never}]
    BY <1>1
<1> QED BY <1>2 DEF Learning, Baselines

LEMMA BaselineInvInit == Init => BaselineInv
BY LearningType DEF Init, MonitorInit, BaselineInv

(* What a tick does to a learner.                                          *)
LEMMA TickedBaseline ==
    ASSUME BaselineInv, NEW at \in Times
    PROVE  /\ Ticked(baseline, at) \in Baselines
           /\ Ticked(baseline, at).samples = baseline.samples
           /\ Ticked(baseline, at).started = IF learnStart = Never THEN at ELSE learnStart
           /\ Ticked(baseline, at).status = "Active" =>
                LET b == Ticked(baseline, at)
                IN  /\ b.calculated # Never
                    /\ learnStart # Never
                    /\ b.calculated - learnStart >= LearningPeriod
                    /\ at - b.calculated <= BaselineExpiry
                    /\ \E m \in Metrics : observed[m] >= MinObservations
<1> DEFINE b == baseline
<1>1. /\ b \in Baselines /\ b.started = learnStart
      /\ b.started \in Times \cup {Never} /\ b.calculated \in Times \cup {Never}
      /\ b.samples \in [Metrics -> 0 .. MaxObservations]
      /\ at # Never
    BY DEF BaselineInv, Baselines, Times, Never
<1>2. CASE b.status = "Learning" /\ b.started = Never
    <2>1. Ticked(b, at) = [b EXCEPT !.started = at]
        BY <1>2 DEF Ticked
    <2> QED BY <1>1, <1>2, <2>1 DEF Baselines
<1> DEFINE ends == b.status = "Learning" /\ b.started # Never /\ at - b.started >= LearningPeriod
           enough == \E m \in Metrics : b.samples[m] >= MinObservations
           lapsed == b.status = "Active" /\ at - b.calculated > BaselineExpiry
<1>3. CASE ends /\ enough
    <2>1. Ticked(b, at) = [b EXCEPT !.status = "Active", !.calculated = at]
        BY <1>3 DEF Ticked
    <2>2. \E m \in Metrics : observed[m] >= MinObservations
        <3>1. PICK m \in Metrics : b.samples[m] >= MinObservations
            BY <1>3
        <3>2. b.samples[m] \in Nat /\ observed[m] \in Nat /\ b.samples[m] <= observed[m]
            BY <1>1, BaselineConfigValid DEF BaselineInv
        <3> QED BY <3>1, <3>2, BaselineConfigValid
    <2>3. at - at <= BaselineExpiry
        BY BoundsNat, BaselineConfigValid DEF Times
    <2> QED BY <1>1, <1>3, <2>1, <2>2, <2>3 DEF Baselines
<1>4. CASE ends /\ ~enough
    <2>1. Ticked(b, at) = [b EXCEPT !.status = "Degraded", !.calculated = Never]
        BY <1>4 DEF Ticked
    <2> QED BY <1>1, <1>4, <2>1 DEF Baselines
<1>5. CASE lapsed
    <2>1. Ticked(b, at) = [b EXCEPT !.status = "Degraded"]
        BY <1>5 DEF Ticked
    <2>2. learnStart # Never
        BY <1>5 DEF BaselineInv
    <2> QED BY <1>1, <1>5, <2>1, <2>2 DEF Baselines
<1>6. CASE ~(b.status = "Learning" /\ b.started = Never) /\ ~ends /\ ~lapsed
    <2>1. Ticked(b, at) = b
        BY <1>6 DEF Ticked
    <2>2. b.status = "Active" => at - b.calculated <= BaselineExpiry
        BY <1>1, <1>6, BoundsNat, BaselineConfigValid DEF Times, Never
    <2>3. /\ Ticked(b, at) \in Baselines
          /\ Ticked(b, at).samples = b.samples
          /\ Ticked(b, at).status = b.status
          /\ Ticked(b, at).started = learnStart
        BY <1>1, <2>1
    <2>4. learnStart # Never
        <3>1. b.status = "Learning" => b.started # Never
            BY <1>6
        <3>2. b.status # "Learning" => learnStart # Never
            BY DEF BaselineInv
        <3> QED BY <1>1, <3>1, <3>2
    <2>5. b.status = "Active" =>
            /\ b.calculated # Never
            /\ b.calculated - learnStart >= LearningPeriod
            /\ at - b.calculated <= BaselineExpiry
            /\ \E m \in Metrics : observed[m] >= MinObservations
        BY <2>2 DEF BaselineInv
    <2> QED BY <2>1, <2>3, <2>4, <2>5
<1> QED BY <1>2, <1>3, <1>4, <1>5, <1>6

(* What recording adds: at most one sample, of the metric observed; an active   *)
(* baseline stays as it is.                                                  *)
LEMMA RecordedBaseline ==
    ASSUME NEW b \in Baselines, NEW m \in Metrics, NEW at \in Times,
           NEW new \in Recorded(b, m, at)
    PROVE  /\ new \in Baselines
           /\ new.status = b.status /\ new.started = b.started /\ new.calculated = b.calculated
           /\ new.samples[m] <= b.samples[m] + 1
           /\ \A k \in Metrics \ {m} : new.samples[k] <= b.samples[k]
           /\ b.status = "Active" => new = b
<1>1. b.samples \in [Metrics -> 0 .. MaxObservations] /\ b.seen \in [Metrics -> Times \cup {Never}]
    BY DEF Baselines
<1>2. ASSUME NEW room \in WithRoom(b, m)
      PROVE  /\ room \in Baselines
             /\ room.status = b.status /\ room.started = b.started
             /\ room.calculated = b.calculated
             /\ \A k \in Metrics : room.samples[k] <= b.samples[k]
    <2>1. CASE room = b
        BY <1>1, <2>1, BaselineConfigValid
    <2>2. ASSUME NEW v \in Metrics, room = [b EXCEPT !.samples[v] = 0, !.seen[v] = Never]
          PROVE  /\ room \in Baselines
                 /\ room.status = b.status /\ room.started = b.started
                 /\ room.calculated = b.calculated
                 /\ \A k \in Metrics : room.samples[k] <= b.samples[k]
        <3>1. room = [b EXCEPT !.samples = [b.samples EXCEPT ![v] = 0],
                              !.seen = [b.seen EXCEPT ![v] = Never]]
            BY <2>2
        <3>2. [b.samples EXCEPT ![v] = 0] \in [Metrics -> 0 .. MaxObservations]
            BY <1>1, BaselineConfigValid
        <3>3. [b.seen EXCEPT ![v] = Never] \in [Metrics -> Times \cup {Never}]
            BY <1>1
        <3>4. \A k \in Metrics : [b.samples EXCEPT ![v] = 0][k] <= b.samples[k]
            BY <1>1, BaselineConfigValid
        <3> QED BY <3>1, <3>2, <3>3, <3>4 DEF Baselines
    <2> QED BY <2>1, <2>2 DEF WithRoom, Victims, Tracked
<1>3. CASE b.status = "Active"
    BY <1>1, <1>3, BaselineConfigValid DEF Recorded
<1>4. CASE b.status # "Active"
    <2>1. PICK room \in WithRoom(b, m) :
            new = [room EXCEPT !.samples[m] = IF @ < MaxObservations THEN @ + 1 ELSE @,
                               !.seen[m] = at]
        BY <1>4 DEF Recorded
    <2> DEFINE count == IF room.samples[m] < MaxObservations THEN room.samples[m] + 1
                                                            ELSE room.samples[m]
    <2>2. new = [room EXCEPT !.samples = [room.samples EXCEPT ![m] = count],
                             !.seen = [room.seen EXCEPT ![m] = at]]
        BY <2>1
    <2>3. room \in Baselines
        BY <1>2
    <2>4. room.samples \in [Metrics -> 0 .. MaxObservations]
          /\ room.seen \in [Metrics -> Times \cup {Never}]
        BY <2>3 DEF Baselines
    <2>5. count \in 0 .. MaxObservations /\ count <= room.samples[m] + 1
        BY <2>4, BaselineConfigValid
    <2> HIDE DEF count
    <2>6. [room.samples EXCEPT ![m] = count] \in [Metrics -> 0 .. MaxObservations]
          /\ [room.samples EXCEPT ![m] = count][m] = count
          /\ \A k \in Metrics \ {m} : [room.samples EXCEPT ![m] = count][k] = room.samples[k]
        BY <2>4, <2>5
    <2>7. [room.seen EXCEPT ![m] = at] \in [Metrics -> Times \cup {Never}]
        BY <2>4
    <2>8. /\ new \in Baselines
          /\ new.status = room.status /\ new.started = room.started
          /\ new.calculated = room.calculated
          /\ new.samples = [room.samples EXCEPT ![m] = count]
        BY <2>2, <2>3, <2>6, <2>7 DEF Baselines
    <2>9. count <= b.samples[m] + 1
        BY <1>1, <1>2, <2>4, <2>5, BaselineConfigValid
    <2> QED BY <1>2, <1>4, <2>6, <2>8, <2>9
<1> QED BY <1>3, <1>4

(* An event keeps the invariant, and opens an incident only under a baseline    *)
(* that is not expired.                                                      *)
LEMMA IngestBaseline ==
    ASSUME BaselineInv, now \in Times, NEW s \in Subjects, NEW k \in Kinds, NEW at \in Recently,
           Ingest(s, k, at)
    PROVE  /\ BaselineInv'
           /\ baseline'.status = "Active" =>
                /\ baseline'.calculated - learnStart >= LearningPeriod
                /\ at - baseline'.calculated <= BaselineExpiry
                /\ \E m \in Metrics : observed[m] >= MinObservations
<1> DEFINE b == Ticked(baseline, at)
           m == <<s, k>>
<1>1. at \in Times /\ at # Never /\ m \in Metrics
    BY DEF Recently, Metrics, Times, Never
<1>2. /\ b \in Baselines /\ b.samples = baseline.samples
      /\ b.started = IF learnStart = Never THEN at ELSE learnStart
      /\ b.status = "Active" =>
            /\ b.calculated # Never /\ learnStart # Never
            /\ b.calculated - learnStart >= LearningPeriod
            /\ at - b.calculated <= BaselineExpiry
            /\ \E n \in Metrics : observed[n] >= MinObservations
    BY <1>1, TickedBaseline
<1>3. /\ baseline' \in Recorded(b, m, at)
      /\ observed' = [observed EXCEPT ![m] = @ + 1]
      /\ learnStart' = IF learnStart = Never THEN at ELSE learnStart
    BY DEF Ingest
<1> HIDE DEF b, m
<1>4. /\ baseline' \in Baselines
      /\ baseline'.status = b.status /\ baseline'.started = b.started
      /\ baseline'.calculated = b.calculated
      /\ baseline'.samples[m] <= b.samples[m] + 1
      /\ \A n \in Metrics \ {m} : baseline'.samples[n] <= b.samples[n]
    BY <1>1, <1>2, <1>3, RecordedBaseline
<1>5. /\ observed \in [Metrics -> Nat] /\ observed' \in [Metrics -> Nat]
      /\ observed'[m] = observed[m] + 1
      /\ \A n \in Metrics \ {m} : observed'[n] = observed[n]
    BY <1>1, <1>3 DEF BaselineInv
<1>6. \A n \in Metrics : baseline'.samples[n] <= observed'[n]
    <2>1. /\ baseline'.samples \in [Metrics -> 0 .. MaxObservations]
          /\ b.samples \in [Metrics -> 0 .. MaxObservations]
        BY <1>2, <1>4 DEF Baselines
    <2>2. \A n \in Metrics : b.samples[n] <= observed[n]
        BY <1>2 DEF BaselineInv
    <2> QED BY <1>1, <1>4, <1>5, <2>1, <2>2, BaselineConfigValid
<1>7. learnStart' \in Times \cup {Never} /\ learnStart' # Never
      /\ (learnStart # Never => learnStart' = learnStart)
    BY <1>1, <1>3 DEF BaselineInv
<1>8. \A n \in Metrics : observed[n] >= MinObservations => observed'[n] >= MinObservations
    BY <1>1, <1>5, BaselineConfigValid
<1>9. BaselineInv'
    <2>1. baseline'.started = learnStart'
        BY <1>2, <1>3, <1>4
    <2>2. baseline'.status = "Active" =>
            /\ baseline'.calculated # Never
            /\ baseline'.calculated - learnStart' >= LearningPeriod
            /\ \E n \in Metrics : observed'[n] >= MinObservations
        BY <1>2, <1>4, <1>7, <1>8
    <2> QED BY <1>4, <1>5, <1>6, <1>7, <2>1, <2>2 DEF BaselineInv
<1> QED BY <1>2, <1>4, <1>9

LEMMA BaselineInvStep ==
    ASSUME BaselineInv, now \in Times, [Next]_vars
    PROVE  BaselineInv'
<1>1. CASE UNCHANGED monitorVars
    BY <1>1 DEF monitorVars, BaselineInv
<1>2. ASSUME NEW at \in Recently, NEW s \in Subjects, NEW k \in Kinds, Ingest(s, k, at)
      PROVE  BaselineInv'
    BY <1>2, IngestBaseline
<1>3. ASSUME NEW at \in Recently, ResetBaseline(at)
      PROVE  BaselineInv'
    <2>1. at \in Times
        BY DEF Recently
    <2>2. /\ Learning(at) \in Baselines /\ Learning(at).status = "Learning"
          /\ Learning(at).started = at /\ \A m \in Metrics : Learning(at).samples[m] = 0
        BY <2>1, LearningType
    <2> QED BY <1>3, <2>1, <2>2 DEF ResetBaseline, FreshLearning, BaselineInv
<1>4. ASSUME NEW i \in DOMAIN incidents, Acknowledge(i) \/ Resolve(i)
      PROVE  BaselineInv'
    BY <1>4 DEF Acknowledge, Resolve, BaselineInv
<1> QED BY <1>1, <1>2, <1>3, <1>4, OneService DEF MonitorNext

(***************************************************************************)
(* The incidents                                                           *)
(***************************************************************************)

Unresolved(i, s) == incidents[i].subject = s /\ incidents[i].status # "Resolved"

Apart(s) ==
    \A i, j \in DOMAIN incidents :
        i < j /\ Unresolved(i, s) /\ Unresolved(j, s)
            => incidents[j].detected - incidents[i].detected > CorrelationWindow

\* An unresolved incident is the one in the index, or the newest event of the
\* subject has left its window.
OthersAreOld(s) ==
    \A i \in DOMAIN incidents :
        Unresolved(i, s) =>
            openOf[s] = i \/ newest[s] - incidents[i].detected > CorrelationWindow

IncidentInv ==
    /\ incidents \in Seq(Incidents)
    /\ openOf \in [Subjects -> {None} \cup DOMAIN incidents]
    /\ newest \in [Subjects -> Times \cup {Never}]
    /\ unordered \subseteq Subjects
    /\ \A s \in Subjects \ unordered : Apart(s) /\ OthersAreOld(s)

LEMMA IncidentInvInit == Init => IncidentInv
BY DEF Init, MonitorInit, IncidentInv, Apart, OthersAreOld

(* An event opens an incident only if the unresolved ones of the subject are old. *)
LEMMA IngestIncidents ==
    ASSUME IncidentInv, now \in Times, NEW s \in Subjects, NEW k \in Kinds, NEW at \in Recently,
           Ingest(s, k, at)
    PROVE  IncidentInv'
<1>1. /\ at \in Times /\ at \in Int /\ CorrelationWindow \in Nat
      /\ Len(incidents) \in Nat /\ DOMAIN incidents = 1 .. Len(incidents)
    BY BaselineConfigValid, BoundsNat DEF Recently, Times, IncidentInv
<1>2. /\ newest' = [newest EXCEPT ![s] = IF at > @ THEN at ELSE @]
      /\ unordered' = IF at < newest[s] THEN unordered \cup {s} ELSE unordered
      /\ \/ OpenIncident(s, at) /\ ~Correlates(s, at)
         \/ UNCHANGED <<incidents, openOf>>
    BY DEF Ingest
<1>3. /\ newest' \in [Subjects -> Times \cup {Never}]
      /\ unordered' \subseteq Subjects
      /\ \A r \in Subjects \ {s} : newest'[r] = newest[r]
      /\ \A r \in Subjects : newest[r] \in Int
      /\ newest'[s] >= newest[s]
      /\ s \notin unordered' => newest'[s] = at /\ s \notin unordered
    BY <1>1, <1>2, BoundsNat DEF IncidentInv, Times, Never
<1>4. \A i \in DOMAIN incidents : incidents[i] \in Incidents /\ incidents[i].detected \in Int
    <2>1. \A i \in DOMAIN incidents : incidents[i] \in Incidents
        BY <1>1 DEF IncidentInv
    <2> QED BY <2>1, BoundsNat DEF Incidents, Times
<1>5. CASE UNCHANGED <<incidents, openOf>>
    <2>1. ASSUME NEW r \in Subjects \ unordered'
          PROVE  Apart(r)' /\ OthersAreOld(r)'
        <3>1. Apart(r) /\ OthersAreOld(r) /\ newest'[r] >= newest[r]
            BY <1>2, <1>3, <2>1 DEF IncidentInv
        <3>2. newest'[r] \in Int /\ newest[r] \in Int
            BY <1>1, <1>3
        <3> QED BY <1>1, <1>4, <1>5, <3>1, <3>2 DEF Apart, OthersAreOld, Unresolved
    <2> QED BY <1>3, <1>5, <2>1 DEF IncidentInv
<1>6. CASE OpenIncident(s, at) /\ ~Correlates(s, at)
    <2> DEFINE new == [subject |-> s, detected |-> at, status |-> "Open"]
               n == Len(incidents) + 1
    <2>1. new \in Incidents
        BY <1>1 DEF Incidents
    <2>2. /\ incidents' \in Seq(Incidents) /\ DOMAIN incidents' = 1 .. n
          /\ incidents'[n] = new
          /\ \A i \in DOMAIN incidents : incidents'[i] = incidents[i]
        BY <1>1, <1>6, <2>1 DEF OpenIncident, IncidentInv
    <2>3. /\ openOf' \in [Subjects -> {None} \cup DOMAIN incidents']
          /\ openOf'[s] = n /\ \A r \in Subjects \ {s} : openOf'[r] = openOf[r]
        BY <1>1, <1>6, <2>2 DEF OpenIncident, IncidentInv
    <2>4. \A i \in DOMAIN incidents, r \in Subjects : Unresolved(i, r)' <=> Unresolved(i, r)
        BY <2>2 DEF Unresolved
    <2>5. incidents'[n].subject = s
        BY <2>2
    <2>6. ASSUME NEW i \in DOMAIN incidents, Unresolved(i, s), s \notin unordered'
          PROVE  at - incidents[i].detected > CorrelationWindow
        <3>1. CASE openOf[s] = i
            BY <1>1, <1>4, <1>6, <2>6, <3>1 DEF Correlates, Unresolved, None
        <3>2. CASE openOf[s] # i
            <4>1. newest[s] - incidents[i].detected > CorrelationWindow
                BY <1>3, <2>6, <3>2 DEF IncidentInv, OthersAreOld
            <4>2. at >= newest[s]
                BY <1>3, <2>6
            <4> QED BY <1>1, <1>3, <1>4, <4>1, <4>2
        <3> QED BY <3>1, <3>2
    <2>7. incidents'[n].detected = at
        BY <2>2
    <2> HIDE DEF new, n
    <2>8. ASSUME NEW r \in Subjects \ unordered'
          PROVE  Apart(r)' /\ OthersAreOld(r)'
        <3>1. Apart(r) /\ OthersAreOld(r)
            BY <1>2, <1>3, <2>8 DEF IncidentInv
        <3>2. CASE r # s
            <4>0. \A i \in DOMAIN incidents' : Unresolved(i, r)' =>
                    i \in DOMAIN incidents /\ Unresolved(i, r)
                BY <1>1, <2>2, <2>4, <2>5, <3>2 DEF Unresolved, n
            <4>1. Apart(r)'
                BY <2>2, <3>1, <4>0 DEF Apart
            <4>2. OthersAreOld(r)'
                BY <1>3, <2>3, <3>1, <3>2, <4>0, <2>2 DEF OthersAreOld
            <4> QED BY <4>1, <4>2
        <3>3. CASE r = s
            <4>1. newest'[s] = at
                BY <1>3, <2>8, <3>3
            <4>2. Apart(s)'
                BY <1>1, <2>2, <2>4, <2>6, <2>7, <2>8, <3>1, <3>3 DEF Apart, n
            <4>3. OthersAreOld(s)'
                BY <1>1, <2>2, <2>3, <2>4, <2>6, <2>8, <3>3, <4>1 DEF OthersAreOld, n
            <4> QED BY <3>3, <4>2, <4>3
        <3> QED BY <3>2, <3>3
    <2> QED BY <1>3, <2>2, <2>3, <2>8 DEF IncidentInv
<1> QED BY <1>2, <1>5, <1>6

(* An acknowledgement leaves the incident unresolved; a resolution takes this    *)
(* incident, and no other, out of the index.                                   *)
LEMMA HandlingIncidents ==
    ASSUME IncidentInv, NEW i \in DOMAIN incidents, Acknowledge(i) \/ Resolve(i)
    PROVE  IncidentInv'
<1>1. PICK status \in {"Acknowledged", "Resolved"} :
        /\ incidents' = [incidents EXCEPT ![i].status = status]
        /\ \/ status = "Resolved" /\ openOf' = ClearedIndex(i)
           \/ incidents[i].status = "Open" /\ openOf' = openOf
        /\ UNCHANGED <<newest, unordered>>
    BY DEF Acknowledge, Resolve
<1>2. /\ Len(incidents) \in Nat /\ DOMAIN incidents = 1 .. Len(incidents)
      /\ incidents \in [1 .. Len(incidents) -> Incidents]
    BY DEF IncidentInv
<1>3. /\ [incidents[i] EXCEPT !.status = status] \in Incidents
      /\ [incidents[i] EXCEPT !.status = status].status = status
      /\ [incidents[i] EXCEPT !.status = status].subject = incidents[i].subject
      /\ [incidents[i] EXCEPT !.status = status].detected = incidents[i].detected
    BY <1>2 DEF Incidents
<1>4. /\ incidents'[i] = [incidents[i] EXCEPT !.status = status]
      /\ \A j \in DOMAIN incidents \ {i} : incidents'[j] = incidents[j]
      /\ DOMAIN incidents' = DOMAIN incidents
      /\ incidents' \in [1 .. Len(incidents) -> Incidents]
    BY <1>1, <1>2, <1>3
<1>5. incidents' \in Seq(Incidents)
    BY <1>2, <1>4
<1>6. \A j \in DOMAIN incidents : incidents'[j].detected = incidents[j].detected
    BY <1>3, <1>4
<1>7. \A j \in DOMAIN incidents, s \in Subjects : Unresolved(j, s)' =>
        Unresolved(j, s) /\ (openOf[s] = j => openOf'[s] = j)
    <2> TAKE j \in DOMAIN incidents, s \in Subjects
    <2>1. CASE j # i
        BY <1>1, <1>4, <2>1 DEF Unresolved, ClearedIndex
    <2>2. CASE j = i
        BY <1>1, <1>3, <1>4, <2>2 DEF Unresolved
    <2> QED BY <2>1, <2>2
<1>8. openOf' \in [Subjects -> {None} \cup DOMAIN incidents']
    BY <1>1, <1>4 DEF IncidentInv, ClearedIndex
<1>9. ASSUME NEW s \in Subjects \ unordered
      PROVE  Apart(s)' /\ OthersAreOld(s)'
    BY <1>1, <1>4, <1>6, <1>7 DEF IncidentInv, Apart, OthersAreOld
<1> QED BY <1>1, <1>5, <1>8, <1>9 DEF IncidentInv

LEMMA IncidentInvStep ==
    ASSUME IncidentInv, now \in Times, [Next]_vars
    PROVE  IncidentInv'
<1>1. CASE UNCHANGED monitorVars
    BY <1>1 DEF monitorVars, IncidentInv, Apart, OthersAreOld, Unresolved
<1>2. ASSUME NEW at \in Recently, ResetBaseline(at)
      PROVE  IncidentInv'
    BY <1>2 DEF ResetBaseline, IncidentInv, Apart, OthersAreOld, Unresolved
<1> QED BY <1>1, <1>2, IngestIncidents, HandlingIncidents, OneService DEF MonitorNext

(***************************************************************************)
(* The monitor's theorems                                                  *)
(***************************************************************************)

MonitorInv == now \in Times /\ BaselineInv /\ IncidentInv

LEMMA MonitorInvHolds == Spec => []MonitorInv
<1>1. Init => MonitorInv
    BY BaselineInvInit, IncidentInvInit, BoundsNat DEF Init, ClockInit, Times, MonitorInv
<1>2. MonitorInv /\ [Next]_vars => MonitorInv'
    BY ClockStep, BaselineInvStep, IncidentInvStep DEF MonitorInv
<1> QED BY <1>1, <1>2, PTL DEF Spec

(* Whatever order events of one subject are handled, acknowledged and resolved  *)
(* in, it has one unresolved incident per correlation window, unless an event    *)
(* came after a newer one.                                                    *)
THEOREM OneIncidentPerWindow == Spec => []SubjectHasOneIncident
<1>1. MonitorInv => SubjectHasOneIncident
    <2> SUFFICES ASSUME MonitorInv, NEW i \in DOMAIN incidents, NEW j \in DOMAIN incidents,
                        i < j, incidents[i].subject = incidents[j].subject,
                        incidents[i].subject \notin unordered,
                        "Resolved" \notin {incidents[i].status, incidents[j].status}
                 PROVE  incidents[j].detected - incidents[i].detected > CorrelationWindow
        BY DEF SubjectHasOneIncident
    <2>1. incidents[i] \in Incidents
        BY DEF MonitorInv, IncidentInv
    <2>2. incidents[i].subject \in Subjects
        BY <2>1 DEF Incidents
    <2> QED BY <2>2 DEF MonitorInv, IncidentInv, Apart, Unresolved
<1> QED BY <1>1, MonitorInvHolds, PTL

(* However events, evictions and resets are ordered, an incident is opened only  *)
(* under a baseline that was learnt since the last reset and has not expired.     *)
THEOREM IncidentsFollowBaseline == Spec => IncidentsNeedBaseline
<1> DEFINE Justified ==
        Len(incidents') > Len(incidents) =>
            /\ baseline'.calculated - learnStart >= LearningPeriod
            /\ Last(incidents').detected - baseline'.calculated <= BaselineExpiry
            /\ \E m \in Metrics : observed[m] >= MinObservations
<1>1. ASSUME MonitorInv, [Next]_vars
      PROVE  [Justified]_monitorVars
    <2> SUFFICES ASSUME Len(incidents') > Len(incidents)
                 PROVE  Justified
        OBVIOUS
    <2>1. ASSUME NEW at \in Recently, NEW s \in Subjects, NEW k \in Kinds, Ingest(s, k, at)
          PROVE  Justified
        <3>1. baseline'.status = "Active" /\ OpenIncident(s, at)
            BY <2>1, <1>1 DEF Ingest, MonitorInv, IncidentInv
        <3>2. Last(incidents') = [subject |-> s, detected |-> at, status |-> "Open"]
            <4> DEFINE new == [subject |-> s, detected |-> at, status |-> "Open"]
            <4>1. new \in Incidents
                BY DEF Incidents, Recently
            <4>2. incidents' = Append(incidents, new) /\ incidents \in Seq(Incidents)
                BY <1>1, <3>1 DEF OpenIncident, MonitorInv, IncidentInv
            <4> HIDE DEF new
            <4>3. Last(incidents') = new
                BY <4>1, <4>2 DEF Last
            <4> QED BY <4>3 DEF new
        <3> QED BY <1>1, <2>1, <3>1, <3>2, IngestBaseline DEF MonitorInv
    <2>2. CASE incidents' = incidents
        BY <1>1, <2>2 DEF MonitorInv, IncidentInv
    <2>3. ASSUME NEW i \in DOMAIN incidents, Acknowledge(i) \/ Resolve(i)
          PROVE  FALSE
        BY <1>1, <2>3 DEF Acknowledge, Resolve, MonitorInv, IncidentInv
    <2> QED BY <1>1, <2>1, <2>2, <2>3, OneService DEF MonitorNext, ResetBaseline, monitorVars
<1> QED BY <1>1, MonitorInvHolds, PTL DEF Spec, IncidentsNeedBaseline

(***************************************************************************)
(* The access to scans                                                     *)
(***************************************************************************)

LEMMA TimesFinite == IsFiniteSet(Times)
BY BoundsNat, FS_Interval DEF Times

\* Exactly the listed recipients are promised something, and the one expiry of the
\* scan lies between the earliest and the latest end that was promised.
LiesWithin(promise, time) ==
    /\ promise.earliest \in Nat /\ promise.latest \in Nat /\ time \in Nat
    /\ promise.earliest <= time /\ time <= promise.latest

PromisesListed(s) ==
    \A u \in Users :
        u # scans[s].owner =>
            IF scans[s].sharedWith[u] > 0
            THEN LiesWithin(promised[s][u], scans[s].expires)
            ELSE promised[s][u] = Promise(Never)

AccessInv ==
    /\ AccessTypeOK
    /\ \A s \in Scans :
        IF Registered(s) THEN PromisesListed(s)
                         ELSE \A u \in Users : promised[s][u] = Promise(Never)

LEMMA PromiseType ==
    ASSUME NEW time \in Int
    PROVE  /\ Promise(time) \in Promises
           /\ Promise(time).earliest = time /\ Promise(time).latest = time
BY DEF Promise, Promises

LEMMA AccessInvInit == Init => AccessInv
BY ScanMark, PromiseType DEF Init, AccessInit, AccessInv, AccessTypeOK, Registered, Never

(* What is enough for a step on one scan to keep the invariant.               *)
LEMMA OneScanChanges ==
    ASSUME AccessInv, NEW s \in Scans, NEW new \in ScanRecords, NEW grants \in [Users -> Promises],
           scans' = [scans EXCEPT ![s] = new], promised' = [promised EXCEPT ![s] = grants],
           \A u \in Users : new.sharedWith[u] <= 1,
           Total(new.sharedWith) <= MaxRecipients,
           new.sharedWith[new.owner] = 0,
           \A u \in Users :
               u # new.owner =>
                   IF new.sharedWith[u] > 0
                   THEN LiesWithin(grants[u], new.expires)
                   ELSE grants[u] = Promise(Never)
    PROVE  AccessInv'
<1>1. /\ scans'[s] = new /\ promised'[s] = grants
      /\ \A r \in Scans \ {s} : scans'[r] = scans[r] /\ promised'[r] = promised[r]
      /\ scans' \in [Scans -> ScanRecords \cup {NoScan}]
      /\ promised' \in [Scans -> [Users -> Promises]]
    BY DEF AccessInv, AccessTypeOK
<1>2. new # NoScan
    BY ScanMark
<1>3. AccessTypeOK'
    <2> SUFFICES ASSUME NEW r \in Scans, scans'[r] # NoScan
                 PROVE  /\ \A u \in Users : scans'[r].sharedWith[u] <= 1
                        /\ Total(scans'[r].sharedWith) <= MaxRecipients
                        /\ scans'[r].sharedWith[scans'[r].owner] = 0
        BY <1>1 DEF AccessTypeOK, Total
    <2>1. CASE r = s
        BY <1>1, <2>1
    <2>2. CASE r # s
        BY <1>1, <2>2 DEF AccessInv, AccessTypeOK
    <2> QED BY <2>1, <2>2
<1>4. ASSUME NEW r \in Scans
      PROVE  IF Registered(r)' THEN PromisesListed(r)'
                               ELSE \A u \in Users : promised'[r][u] = Promise(Never)
    <2>1. CASE r = s
        BY <1>1, <1>2, <2>1 DEF PromisesListed, Registered
    <2>2. CASE r # s
        BY <1>1, <2>2 DEF AccessInv, PromisesListed, Registered
    <2> QED BY <2>1, <2>2
<1> QED BY <1>3, <1>4 DEF AccessInv

(* What is known of a scan that is registered.                                *)
LEMMA ScanFacts ==
    ASSUME AccessInv, NEW s \in Scans, Registered(s)
    PROVE  /\ scans[s] \in ScanRecords
           /\ scans[s].owner \in Users
           /\ scans[s].sharedWith \in Counts(Users)
           /\ scans[s].expires \in Int
           /\ \A u \in Users : scans[s].sharedWith[u] <= 1
           /\ Total(scans[s].sharedWith) <= MaxRecipients
           /\ scans[s].sharedWith[scans[s].owner] = 0
           /\ promised[s] \in [Users -> Promises]
           /\ PromisesListed(s)
BY DEF AccessInv, AccessTypeOK, Registered, ScanRecords

LEMMA RegisterKeepsAccess ==
    ASSUME AccessInv, NEW s \in Scans, NEW u \in Users, RegisterScan(s, u)
    PROVE  AccessInv'
<1> DEFINE new == [owner |-> u, sharedWith |-> NoneOf(Users), expires |-> Never]
<1>1. NoneOf(Users) \in Counts(Users) /\ \A v \in Users : NoneOf(Users)[v] = 0
    BY NoneIsCounts DEF NoneOf
<1>2. Total(NoneOf(Users)) = 0
    BY <1>1, ShareConfig, TotalOfNone
<1>3. new \in ScanRecords
    BY <1>1 DEF ScanRecords, Never
<1>4. promised[s] \in [Users -> Promises] /\ \A v \in Users : promised[s][v] = Promise(Never)
    BY DEF RegisterScan, AccessInv, AccessTypeOK
<1>5. /\ scans' = [scans EXCEPT ![s] = new]
      /\ promised' = [promised EXCEPT ![s] = promised[s]]
    BY DEF RegisterScan, AccessInv, AccessTypeOK
<1>6. Total(NoneOf(Users)) <= MaxRecipients
    BY <1>2, ShareConfig
<1>7. new.sharedWith = NoneOf(Users) /\ new.owner = u
    OBVIOUS
<1> HIDE DEF new
<1>8. /\ \A v \in Users : new.sharedWith[v] <= 1
      /\ Total(new.sharedWith) <= MaxRecipients
      /\ new.sharedWith[new.owner] = 0
    BY <1>1, <1>6, <1>7
<1>9. \A v \in Users :
        v # new.owner =>
            IF new.sharedWith[v] > 0
            THEN LiesWithin(promised[s][v], new.expires)
            ELSE promised[s][v] = Promise(Never)
    BY <1>1, <1>4, <1>7
<1> QED BY <1>3, <1>4, <1>5, <1>8, <1>9, OneScanChanges

(* Whatever was asked for, the expiry is a time.                              *)
LEMMA ExpiryType ==
    ASSUME now \in Times, NEW hours \in {Never} \cup 0 .. MaxExpiry + 1
    PROVE  Expiry(hours) \in Nat /\ Expiry(hours) # Never
<1>1. now \in Nat
    BY BoundsNat DEF Times
<1>2. hours = Never \/ hours \in Nat
    BY ShareConfig
<1>3. Expiry(hours) \in Nat
    BY <1>1, <1>2, ShareConfig DEF Expiry
<1> QED BY <1>3 DEF Never

(* A share moves the ends promised to the other recipients apart.             *)
LEMMA WithPromiseType ==
    ASSUME NEW promises \in [Users -> Promises], NEW u \in Users, NEW time \in Nat
    PROVE  LET grants == WithPromise(promises, u, time)
           IN  /\ grants \in [Users -> Promises]
               /\ \A v \in Users :
                    /\ v = u => grants[v] = Promise(time)
                    /\ v # u /\ promises[v] = Promise(Never) => grants[v] = Promise(Never)
                    /\ v # u /\ promises[v].earliest \in Nat /\ promises[v].latest \in Nat
                       => LiesWithin(grants[v], time)
<1> DEFINE grants == WithPromise(promises, u, time)
           first(v) == IF time < promises[v].earliest THEN time ELSE promises[v].earliest
           last(v) == IF time > promises[v].latest THEN time ELSE promises[v].latest
           moved(v) == [promises[v] EXCEPT !.earliest = first(v), !.latest = last(v)]
<1>1. ASSUME NEW v \in Users
      PROVE  /\ moved(v) \in Promises
             /\ moved(v).earliest = first(v) /\ moved(v).latest = last(v)
    <2>1. promises[v] \in Promises
        OBVIOUS
    <2>2. PICK f \in Int, l \in Int : f = first(v) /\ l = last(v)
        BY <2>1 DEF Promises
    <2>3. moved(v) = [promises[v] EXCEPT !.earliest = f, !.latest = l]
        BY <2>2
    <2> HIDE DEF moved
    <2> QED BY <2>1, <2>2, <2>3 DEF Promises
<1>2. Promise(time) \in Promises /\ Promise(Never) \in Promises
      /\ Promise(Never).earliest = Never
    BY PromiseType DEF Never
<1>3. \A v \in Users :
        grants[v] = IF v = u THEN Promise(time)
                    ELSE IF promises[v] = Promise(Never) THEN Promise(Never) ELSE moved(v)
    BY DEF WithPromise
<1>4. grants = [v \in Users |-> grants[v]]
    BY DEF WithPromise
<1> HIDE DEF grants, moved
<1>5. grants \in [Users -> Promises]
    BY <1>1, <1>2, <1>3, <1>4
<1>6. ASSUME NEW v \in Users, v # u,
             promises[v].earliest \in Nat, promises[v].latest \in Nat
      PROVE  LiesWithin(grants[v], time)
    <2>1. promises[v] # Promise(Never)
        BY <1>2, <1>6 DEF Never
    <2>2. grants[v] = moved(v)
        BY <1>3, <1>6, <2>1
    <2> QED BY <1>1, <1>6, <2>2 DEF LiesWithin
<1> QED BY <1>3, <1>5, <1>6 DEF grants

LEMMA ShareKeepsAccess ==
    ASSUME AccessInv, now \in Times, NEW s \in Scans, NEW u \in Users,
           NEW hours \in {Never} \cup 0 .. MaxExpiry + 1, ShareScan(s, u, hours)
    PROVE  AccessInv'
<1>1. PICK old : old = scans[s]
    OBVIOUS
<1>2. PICK time \in Nat : time = Expiry(hours) /\ time # Never
    BY ExpiryType
<1>3. /\ old \in ScanRecords /\ old.owner \in Users /\ old.sharedWith \in Counts(Users)
      /\ \A v \in Users : old.sharedWith[v] <= 1
      /\ Total(old.sharedWith) < MaxRecipients
      /\ old.sharedWith[old.owner] = 0
      /\ u # old.owner
      /\ PromisesListed(s) /\ Registered(s)
    BY <1>1, ScanFacts DEF ShareScan
<1>4. PICK list : list = WithRecipient(old.sharedWith, u)
    OBVIOUS
<1>5. /\ list \in Counts(Users) /\ list[u] = 1
      /\ \A v \in Users \ {u} : list[v] = old.sharedWith[v]
      /\ Total(list) <= MaxRecipients
    <2>1. Total(old.sharedWith) \in Nat
        BY <1>3, ShareConfig, TotalCounts
    <2>2. CASE old.sharedWith[u] > 0
        <3>1. old.sharedWith[u] = 1
            BY <1>3, <2>2 DEF Counts
        <3> QED BY <1>3, <1>4, <2>1, <2>2, <3>1, ShareConfig DEF WithRecipient
    <2>3. CASE ~(old.sharedWith[u] > 0)
        <3>1. old.sharedWith[u] = 0
            BY <1>3, <2>3 DEF Counts
        <3>2. list = Pushed(old.sharedWith, u)
            BY <1>4, <2>3 DEF WithRecipient
        <3>3. Total(list) = Total(old.sharedWith) + 1
            BY <1>3, <3>2, ShareConfig, TotalPushed
        <3>4. /\ list \in Counts(Users) /\ list[u] = old.sharedWith[u] + 1
              /\ \A v \in Users \ {u} : list[v] = old.sharedWith[v]
            BY <1>3, <3>2, PushedCounts
        <3>5. Total(list) <= MaxRecipients
            BY <1>3, <2>1, <3>3, ShareConfig
        <3> QED BY <3>1, <3>4, <3>5
    <2> QED BY <2>2, <2>3
<1>6. PICK new : new = [old EXCEPT !.sharedWith = list, !.expires = time]
    OBVIOUS
<1>7. /\ new \in ScanRecords /\ new.owner = old.owner
      /\ new.sharedWith = list /\ new.expires = time
    <2>1. list \in Counts(Users) /\ time \in Int
        BY <1>2, <1>5
    <2> QED BY <1>3, <1>6, <2>1 DEF ScanRecords
<1>8. PICK grants : grants = WithPromise(promised[s], u, time)
    OBVIOUS
<1>9. /\ grants \in [Users -> Promises]
      /\ \A v \in Users :
            /\ v = u => grants[v] = Promise(time)
            /\ v # u /\ promised[s][v] = Promise(Never) => grants[v] = Promise(Never)
            /\ v # u /\ promised[s][v].earliest \in Nat /\ promised[s][v].latest \in Nat
               => LiesWithin(grants[v], time)
    BY <1>1, <1>2, <1>3, <1>8, ScanFacts, WithPromiseType
<1>10. /\ scans' = [scans EXCEPT ![s] = new]
       /\ promised' = [promised EXCEPT ![s] = grants]
    <2>1. scans' = [scans EXCEPT ![s].sharedWith = list, ![s].expires = time]
        BY <1>1, <1>2, <1>4 DEF ShareScan
    <2>2. scans' = [scans EXCEPT ![s] = new]
        BY <1>1, <1>6, <2>1 DEF AccessInv, AccessTypeOK
    <2>3. promised' = [promised EXCEPT ![s] = grants]
        BY <1>2, <1>8 DEF ShareScan, AccessInv, AccessTypeOK
    <2> QED BY <2>2, <2>3
<1>11. ASSUME NEW v \in Users
       PROVE  /\ list[v] <= 1
              /\ v # old.owner =>
                    IF list[v] > 0 THEN LiesWithin(grants[v], time)
                                   ELSE grants[v] = Promise(Never)
    <2>1. CASE v = u
        BY <1>2, <1>5, <1>9, <2>1, PromiseType DEF LiesWithin
    <2>2. CASE v # u
        <3>1. list[v] = old.sharedWith[v]
            BY <1>5, <2>2
        <3>2. v # old.owner /\ list[v] > 0 =>
                promised[s][v].earliest \in Nat /\ promised[s][v].latest \in Nat
            BY <1>1, <1>3, <3>1 DEF PromisesListed, LiesWithin
        <3>3. v # old.owner /\ ~(list[v] > 0) => promised[s][v] = Promise(Never)
            BY <1>1, <1>3, <3>1 DEF PromisesListed
        <3> QED BY <1>3, <1>9, <2>2, <3>1, <3>2, <3>3
    <2> QED BY <2>1, <2>2
<1>12. list[old.owner] = 0
    BY <1>3, <1>5
<1> QED BY <1>5, <1>7, <1>9, <1>10, <1>11, <1>12, OneScanChanges

LEMMA RevokeKeepsAccess ==
    ASSUME AccessInv, NEW s \in Scans, NEW u \in Users, RevokeShare(s, u)
    PROVE  AccessInv'
<1>1. PICK old : old = scans[s]
    OBVIOUS
<1>2. /\ old \in ScanRecords /\ old.owner \in Users /\ old.sharedWith \in Counts(Users)
      /\ old.expires \in Int
      /\ \A v \in Users : old.sharedWith[v] <= 1
      /\ Total(old.sharedWith) <= MaxRecipients
      /\ old.sharedWith[old.owner] = 0
      /\ promised[s] \in [Users -> Promises]
      /\ PromisesListed(s) /\ Registered(s)
    BY <1>1, ScanFacts DEF RevokeShare
<1>3. PICK list : list = [old.sharedWith EXCEPT ![u] = 0]
    OBVIOUS
<1>4. /\ list \in Counts(Users) /\ list[u] = 0
      /\ \A v \in Users \ {u} : list[v] = old.sharedWith[v]
      /\ \A v \in Users : list[v] <= old.sharedWith[v]
    BY <1>2, <1>3 DEF Counts
<1>5. Total(list) <= MaxRecipients
    <2>1. Total(list) <= Total(old.sharedWith)
        BY <1>2, <1>4, ShareConfig, TotalMonotone
    <2>2. Total(list) \in Nat /\ Total(old.sharedWith) \in Nat
        BY <1>2, <1>4, ShareConfig, TotalCounts
    <2> QED BY <1>2, <2>1, <2>2, ShareConfig
<1>6. PICK new : new = [old EXCEPT !.sharedWith = list]
    OBVIOUS
<1>7. /\ new \in ScanRecords /\ new.owner = old.owner
      /\ new.sharedWith = list /\ new.expires = old.expires
    BY <1>2, <1>4, <1>6 DEF ScanRecords
<1>8. PICK grants : grants = [promised[s] EXCEPT ![u] = Promise(Never)]
    OBVIOUS
<1>9. /\ grants \in [Users -> Promises] /\ grants[u] = Promise(Never)
      /\ \A v \in Users \ {u} : grants[v] = promised[s][v]
    BY <1>2, <1>8, PromiseType DEF Never
<1>10. /\ scans' = [scans EXCEPT ![s] = new]
       /\ promised' = [promised EXCEPT ![s] = grants]
    BY <1>1, <1>3, <1>6, <1>8 DEF RevokeShare, WithoutRecipient, AccessInv, AccessTypeOK
<1>11. ASSUME NEW v \in Users
       PROVE  /\ list[v] <= 1
              /\ v # old.owner =>
                    IF list[v] > 0 THEN LiesWithin(grants[v], old.expires)
                                   ELSE grants[v] = Promise(Never)
    <2>1. CASE v = u
        BY <1>4, <1>9, <2>1
    <2>2. CASE v # u
        BY <1>1, <1>2, <1>4, <1>9, <2>2 DEF PromisesListed
    <2> QED BY <2>1, <2>2
<1>12. list[old.owner] = 0
    BY <1>2, <1>4
<1>13. \A v \in Users :
        /\ new.sharedWith[v] <= 1
        /\ v # new.owner =>
              IF new.sharedWith[v] > 0
              THEN LiesWithin(grants[v], new.expires)
              ELSE grants[v] = Promise(Never)
    BY <1>7, <1>11
<1> QED BY <1>5, <1>7, <1>9, <1>10, <1>12, <1>13, OneScanChanges

LEMMA AccessInvHolds == Spec => [](now \in Times /\ AccessInv)
<1>1. Init => now \in Times /\ AccessInv
    BY AccessInvInit, BoundsNat DEF Init, ClockInit, Times
<1>2. now \in Times /\ AccessInv /\ [Next]_vars => (now \in Times /\ AccessInv)'
    <2>1. ASSUME AccessInv, UNCHANGED accessVars
          PROVE  AccessInv'
        BY <2>1 DEF accessVars, AccessInv, AccessTypeOK, PromisesListed, Registered
    <2>2. ASSUME now \in Times, AccessInv, AccessNext
          PROVE  AccessInv'
        BY <2>2, RegisterKeepsAccess, RevokeKeepsAccess, ShareKeepsAccess DEF AccessNext
    <2> QED BY <2>1, <2>2, ClockStep, OneService DEF Times
<1> QED BY <1>1, <1>2, PTL DEF Spec

(* Whatever is registered, shared, shared again and revoked, a user who is not    *)
(* the owner is let in by a share not revoked since, until the earliest end it    *)
(* and later shares promised and not after the latest.                           *)
THEOREM SharesDecideAccess == Spec => []AccessFollowsShares
<1>1. now \in Times /\ AccessInv => AccessFollowsShares
    <2> SUFFICES ASSUME now \in Times, AccessInv, NEW s \in Scans, NEW u \in Users,
                        Registered(s), u # scans[s].owner
                 PROVE  /\ now <= promised[s][u].earliest => MayRead(s, u)
                        /\ MayRead(s, u) => now <= promised[s][u].latest
        BY DEF AccessFollowsShares
    <2>1. scans[s].sharedWith[u] > 0 => LiesWithin(promised[s][u], scans[s].expires)
        BY ScanFacts DEF PromisesListed
    <2>2. ~(scans[s].sharedWith[u] > 0) => promised[s][u].earliest = Never
        BY ScanFacts, PromiseType DEF PromisesListed, Never
    <2>3. now \in Nat /\ ~(now <= Never)
        BY BoundsNat DEF Times, Never
    <2>4. CASE scans[s].sharedWith[u] > 0
        <3>1. scans[s].expires # Never
            BY <2>1, <2>4 DEF LiesWithin, Never
        <3> QED BY <2>1, <2>3, <2>4, <3>1 DEF MayRead, IsSharedWith, LiesWithin
    <2>5. CASE ~(scans[s].sharedWith[u] > 0)
        BY <2>2, <2>3, <2>5 DEF MayRead, IsSharedWith
    <2> QED BY <2>4, <2>5
<1> QED BY <1>1, AccessInvHolds, PTL

(***************************************************************************)
(* Types                                                                   *)
(***************************************************************************)

LEMMA ServiceClockHolds == Spec => [](service \in Services /\ ClockTypeOK)
<1>1. Init => service \in Services /\ ClockTypeOK
    BY BoundsNat DEF Init, ClockInit, ClockTypeOK, Times
<1>2. service \in Services /\ ClockTypeOK /\ [Next]_vars => (service \in Services /\ ClockTypeOK)'
    <2>1. ASSUME ClockTypeOK, [Next]_vars
          PROVE  ClockTypeOK'
        <3>1. begun' = begun \/ Begin
            BY <2>1 DEF Next, vars, clockVars, Tick, MonitorNext, Ingest, ResetBaseline,
                   Acknowledge, Resolve, AccessNext, RegisterScan, RevokeShare, ShareScan,
                   AuditNext, Record, Tamper
        <3>2. begun' \in 0 .. MaxCalls
            BY <2>1, <3>1, BoundsNat DEF Begin, ClockTypeOK
        <3> QED BY <2>1, <3>2, ClockStep DEF ClockTypeOK
    <2>2. ASSUME service \in Services, [Next]_vars
          PROVE  (service \in Services)'
        BY <2>2 DEF Next, vars
    <2> QED BY <2>1, <2>2
<1> QED BY <1>1, <1>2, PTL DEF Spec

\* The trail holds no more entries than it may.
LEMMA TrailIsBounded == Spec => [](ChainInv /\ Len(entries) <= MaxEntries)
<1>1. Init => ChainInv /\ Len(entries) <= MaxEntries
    BY ChainInvInit, AuditConfig DEF Init, AuditInit
<1>2. ChainInv /\ Len(entries) <= MaxEntries /\ [Next]_vars => (Len(entries) <= MaxEntries)'
    <2> SUFFICES ASSUME ChainInv, Len(entries) <= MaxEntries, [Next]_vars
                 PROVE  Len(entries') <= MaxEntries
        OBVIOUS
    <2>1. CASE UNCHANGED auditVars
        BY <2>1 DEF auditVars
    <2>2. ASSUME NEW content \in Contents, Record(content)
          PROVE  Len(entries') <= MaxEntries
        <3> DEFINE longer == Append(entries, Linked(content, LastHash))
        <3>1. CASE entries' = longer /\ Len(longer) <= MaxEntries
            BY <3>1
        <3>2. CASE entries' = Rebuilt(Tail(longer))
            <4>1. Len(Tail(longer)) = Len(entries) /\ Len(entries) \in Nat
                BY DEF ChainInv
            <4> HIDE DEF longer
            <4>2. DOMAIN Rebuilt(Tail(longer)) = 1 .. Len(Tail(longer))
                BY DEF Rebuilt
            <4>3. Len(Rebuilt(Tail(longer))) = Len(entries)
                BY <4>1, <4>2
            <4> QED BY <3>2, <4>3
        <3> QED BY <2>2, <3>1, <3>2 DEF Record
    <2>3. ASSUME NEW content \in Contents, NEW i \in DOMAIN entries, Tamper(i, content)
          PROVE  Len(entries') <= MaxEntries
        BY <2>3 DEF Tamper, ChainInv
    <2> QED BY <2>1, <2>2, <2>3, OneService DEF AuditNext
<1> QED BY <1>1, <1>2, ChainInvHolds, PTL DEF Spec

\* The learner tracks no more metrics than it may.
TrackedWithinLimit(b) == IsFiniteSet(Tracked(b)) /\ Cardinality(Tracked(b)) <= MaxMetrics

(* A metric not seen before gets a place only if there is one, or if another      *)
(* metric gives up its own.                                                    *)
LEMMA RecordedTracked ==
    ASSUME NEW b \in Baselines, TrackedWithinLimit(b), NEW m \in Metrics, NEW at \in Times,
           NEW new \in Recorded(b, m, at)
    PROVE  TrackedWithinLimit(new)
<1>1. CASE b.status = "Active"
    BY <1>1 DEF Recorded
<1>2. CASE b.status # "Active"
    <2>1. PICK room \in WithRoom(b, m) :
            new = [room EXCEPT !.samples[m] = IF @ < MaxObservations THEN @ + 1 ELSE @,
                               !.seen[m] = at]
        BY <1>2 DEF Recorded
    <2>2. /\ room.samples \in [Metrics -> 0 .. MaxObservations]
          /\ new.samples = [room.samples EXCEPT ![m] = IF @ < MaxObservations THEN @ + 1 ELSE @]
          /\ IsFiniteSet(Tracked(room))
          /\ Cardinality(Tracked(room) \cup {m}) <= MaxMetrics
        <3>1. b.samples \in [Metrics -> 0 .. MaxObservations]
            BY DEF Baselines
        <3>2. Cardinality(Tracked(b)) \in Nat
            BY FS_CardinalityType DEF TrackedWithinLimit
        <3>3. CASE room = b /\ (m \in Tracked(b) \/ Cardinality(Tracked(b)) < MaxMetrics)
            <4>1. Cardinality(Tracked(b) \cup {m}) <= MaxMetrics
                <5>1. Cardinality(Tracked(b) \cup {m}) =
                        IF m \in Tracked(b) THEN Cardinality(Tracked(b))
                                            ELSE Cardinality(Tracked(b)) + 1
                    BY FS_AddElement DEF TrackedWithinLimit
                <5>2. Cardinality(Tracked(b)) <= MaxMetrics
                    BY DEF TrackedWithinLimit
                <5> QED BY <3>2, <3>3, <5>1, <5>2, BaselineConfigValid
            <4>2. new.samples =
                    [room.samples EXCEPT ![m] = IF @ < MaxObservations THEN @ + 1 ELSE @]
                BY <2>1, <3>3 DEF Baselines
            <4> QED BY <3>1, <3>3, <4>1, <4>2 DEF TrackedWithinLimit
        <3>4. ASSUME NEW v \in Victims(b), room = [b EXCEPT !.samples[v] = 0, !.seen[v] = Never],
                     m \notin Tracked(b)
              PROVE  /\ room.samples \in [Metrics -> 0 .. MaxObservations]
                     /\ new.samples =
                          [room.samples EXCEPT ![m] = IF @ < MaxObservations THEN @ + 1 ELSE @]
                     /\ IsFiniteSet(Tracked(room))
                     /\ Cardinality(Tracked(room) \cup {m}) <= MaxMetrics
            <4>1. v \in Tracked(b) /\ v \in Metrics
                BY DEF Victims, Tracked
            <4>2. room.samples = [b.samples EXCEPT ![v] = 0]
                BY <3>4 DEF Baselines
            <4>3. room.samples \in [Metrics -> 0 .. MaxObservations]
                BY <3>1, <4>1, <4>2, BaselineConfigValid
            <4>4. Tracked(room) = Tracked(b) \ {v}
                BY <3>1, <4>1, <4>2, BaselineConfigValid DEF Tracked
            <4>5. /\ IsFiniteSet(Tracked(room))
                  /\ Cardinality(Tracked(room)) = Cardinality(Tracked(b)) - 1
                BY <4>1, <4>4, FS_RemoveElement DEF TrackedWithinLimit
            <4>6. Cardinality(Tracked(room) \cup {m}) <= MaxMetrics
                <5>1. Cardinality(Tracked(room) \cup {m}) =
                        IF m \in Tracked(room) THEN Cardinality(Tracked(room))
                                               ELSE Cardinality(Tracked(room)) + 1
                    BY <4>5, FS_AddElement
                <5>2. Cardinality(Tracked(b)) <= MaxMetrics
                    BY DEF TrackedWithinLimit
                <5> QED BY <3>2, <4>5, <5>1, <5>2, BaselineConfigValid
            <4>7. new.samples =
                    [room.samples EXCEPT ![m] = IF @ < MaxObservations THEN @ + 1 ELSE @]
                BY <2>1, <3>4 DEF Baselines
            <4> QED BY <4>3, <4>5, <4>6, <4>7
        <3> QED BY <3>3, <3>4 DEF WithRoom
    <2>3. Tracked(new) = Tracked(room) \cup {m}
        <3>1. \A k \in Metrics \ {m} : new.samples[k] = room.samples[k]
            BY <2>2
        <3>2. new.samples[m] > 0
            BY <2>2, BaselineConfigValid
        <3> QED BY <3>1, <3>2 DEF Tracked
    <2> QED BY <2>2, <2>3, FS_AddElement DEF TrackedWithinLimit
<1> QED BY <1>1, <1>2

LEMMA CountedCounts ==
    ASSUME NEW list \in Counts(Times), NEW at \in Times
    PROVE  Counted(list, at) \in Counts(Times)
<1>1. Pushed(list, at) \in Counts(Times)
    BY PushedCounts
<1> QED BY <1>1 DEF Counted, Within, Counts

MemoryInv ==
    /\ recent \in [Metrics -> Counts(Times)]
    /\ TrackedWithinLimit(baseline)

LEMMA MemoryInvInit == Init => MemoryInv
<1>1. Tracked(Learning(Never)) = {}
    BY DEF Tracked, Learning
<1>2. TrackedWithinLimit(Learning(Never))
    BY <1>1, FS_EmptySet, BaselineConfigValid DEF TrackedWithinLimit
<1>3. NoneOf(Times) \in Counts(Times)
    BY NoneIsCounts
<1> QED BY <1>2, <1>3 DEF Init, MonitorInit, MemoryInv

LEMMA MemoryInvStep ==
    ASSUME BaselineInv, MemoryInv, [Next]_vars
    PROVE  MemoryInv'
<1>1. CASE UNCHANGED monitorVars
    BY <1>1 DEF monitorVars, MemoryInv
<1>2. ASSUME NEW at \in Recently, NEW s \in Subjects, NEW k \in Kinds, Ingest(s, k, at)
      PROVE  MemoryInv'
    <2>1. at \in Times /\ <<s, k>> \in Metrics
        BY DEF Recently, Metrics
    <2>2. recent' \in [Metrics -> Counts(Times)]
        BY <1>2, <2>1, CountedCounts DEF Ingest, MemoryInv
    <2>3. /\ Ticked(baseline, at) \in Baselines
          /\ Tracked(Ticked(baseline, at)) = Tracked(baseline)
        BY <2>1, TickedBaseline DEF Tracked
    <2>4. baseline' \in Recorded(Ticked(baseline, at), <<s, k>>, at)
        BY <1>2 DEF Ingest
    <2>5. TrackedWithinLimit(baseline')
        BY <2>1, <2>3, <2>4, RecordedTracked DEF MemoryInv, TrackedWithinLimit
    <2> QED BY <2>2, <2>5 DEF MemoryInv, TrackedWithinLimit, Tracked
<1>3. ASSUME NEW at \in Recently, ResetBaseline(at)
      PROVE  MemoryInv'
    <2>1. Tracked(Learning(at)) = {}
        BY DEF Tracked, Learning
    <2>2. recent' = recent /\ baseline' = Learning(at)
        BY <1>3 DEF ResetBaseline, FreshLearning
    <2>3. TrackedWithinLimit(Learning(at))
        BY <2>1, FS_EmptySet, BaselineConfigValid DEF TrackedWithinLimit
    <2>4. TrackedWithinLimit(baseline')
        BY <2>2, <2>3
    <2> QED BY <2>2, <2>4 DEF MemoryInv, TrackedWithinLimit, Tracked
<1>4. ASSUME NEW i \in DOMAIN incidents, Acknowledge(i) \/ Resolve(i)
      PROVE  MemoryInv'
    BY <1>4 DEF Acknowledge, Resolve, MemoryInv
<1> QED BY <1>1, <1>2, <1>3, <1>4, OneService DEF MonitorNext

(* Every variable keeps to its type: what the services hold in memory stays       *)
(* within the limits on metrics, recipients and entries.                         *)
THEOREM ServerTypeCorrect == Spec => []TypeOK
<1>1. Spec => []MemoryInv
    <2>1. MonitorInv /\ MemoryInv /\ [Next]_vars => MemoryInv'
        BY MemoryInvStep DEF MonitorInv
    <2> QED BY <2>1, MemoryInvInit, MonitorInvHolds, PTL DEF Spec
<1>2. MonitorInv /\ MemoryInv => MonitorTypeOK
    BY DEF MonitorInv, MemoryInv, BaselineInv, IncidentInv, TrackedWithinLimit, MonitorTypeOK
<1>3. ChainInv /\ Len(entries) <= MaxEntries => AuditTypeOK
    BY DEF ChainInv, AuditTypeOK
<1>4. AccessInv => AccessTypeOK
    BY DEF AccessInv
<1>5. (service \in Services /\ ClockTypeOK) /\ MonitorTypeOK /\ AccessTypeOK /\ AuditTypeOK
        => TypeOK
    BY DEF TypeOK
<1> QED BY <1>1, <1>2, <1>3, <1>4, <1>5, ServiceClockHolds, TrailIsBounded,
           AccessInvHolds, MonitorInvHolds, PTL
=============================================================================
