---------------------------- MODULE ScanRunProofs ----------------------------
(***************************************************************************)
(* Proofs about ScanRun, for any files, imports, contents, monitors and     *)
(* bounds.                                                                 *)
(***************************************************************************)
EXTENDS ScanRun, FiniteSetTheorems, WellFoundedInduction, TLAPS

(***************************************************************************)
(* The inductive invariant                                                 *)
(***************************************************************************)

AtAFile == {"read", "analyse", "trigger"}

Scanning == {"start", "reset", "loop"} \cup AtAFile

Entries == Files \X (Versions \cup {Absent})

\* The scanning thread has a file exactly while it is at one, ...
CurrentOK == IF phase \in AtAFile THEN current \in Entries ELSE current = NoEntry

\* ... and the manifest is loaded, collected for and saved in its modes only,
\* when no entry is left.
PhaseOK ==
    /\ phase = "load" => mode = "incremental"
    /\ phase = "collect" => mode = "force"
    /\ phase \in {"save", "saving"} => mode \in {"incremental", "force"}
    /\ phase \in {"collect", "save"} => todo = {}
    /\ phase = "between" => mode = "library"

\* The one late file is behind the thread.
LateOK ==
    /\ ~isStopped => late = 0
    /\ late <= 1
    /\ isStopped /\ late = 1 => phase # "read"

\* The scan has yet to decide on f, or has given it up.
Open(f) ==
    \/ f \in todo \cup left \cup touched
    \/ phase \in {"read", "analyse"} /\ f = current[1]

\* A version that was not analysed in full is of an open file, or was recorded.
Planned(f) ==
    info[f] <= seen[f] \/ Open(f) \/ (manifest # NoManifest /\ manifest[f] = info[f])

\* An incremental run: what it collected is planned for or recorded, and what it
\* reads is no older.
PlanOK ==
    mode = "incremental" /\ phase \in Scanning \cup {"save"} =>
        /\ manifest # Truncated
        /\ \A f \in Listed(info) : Planned(f)
        /\ \A f \in Files : disk[f] # Absent => disk[f] >= info[f]
        /\ phase = "analyse" => current[2] >= info[current[1]]

\* A forced run: what is on disk was analysed, is still open, or was touched.
ForcedOK ==
    mode = "force" =>
        /\ phase \in Scanning \cup {"collect"} =>
               \A f \in Listed(disk) : disk[f] <= seen[f] \/ Open(f)
        /\ phase = "analyse" => current[1] \in touched \/ current[2] >= disk[current[1]]
        /\ phase = "save" => \A f \in Listed(info) : info[f] <= seen[f] \/ Open(f)

Analysed(record) ==
    \A f \in Listed(record) : record[f] <= seen[f] \/ <<f, record[f]>> \in excused

SavingOK == phase = "saving" => Analysed(info)

RunInv ==
    /\ TypeOK
    /\ CurrentOK
    /\ PhaseOK
    /\ LateOK
    /\ PlanOK
    /\ ForcedOK
    /\ SavingOK
    /\ RecordedWasAnalysed

LEMMA RunInvInit == Init => RunInv
<1> SUFFICES ASSUME Init PROVE RunInv
    OBVIOUS
<1>1. 1 \in Versions /\ disk \in FileInfos /\ NoFiles \in FileInfos /\ seen \in FileInfos
    BY VersionsType DEF Init, FileInfos, NoFiles, Versions
<1>2. TypeOK
    <2>1. StopTypeOK /\ WatchdogTypeOK
        BY DEF Init, StopInit, StopTypeOK, WatchdogInit, WatchdogTypeOK, MonitorSteps
    <2>2. manifest \in Manifests
        BY <1>1 DEF Init, Manifests
    <2>3. 0 \in 0 .. MaxEdits /\ 0 \in 0 .. MaxRuns
        BY ScanBounds
    <2> QED BY <1>1, <2>1, <2>2, <2>3 DEF Init, TypeOK, Phases, Modes
<1>3. CurrentOK /\ PhaseOK /\ LateOK /\ PlanOK /\ ForcedOK /\ SavingOK
    BY DEF Init, CurrentOK, PhaseOK, LateOK, PlanOK, ForcedOK, SavingOK, AtAFile
<1>4. RecordedWasAnalysed
    BY <1>1 DEF Init, RecordedWasAnalysed, FileInfos, Versions, Listed, Absent
<1> QED BY <1>2, <1>3, <1>4 DEF RunInv

(***************************************************************************)
(* Types                                                                   *)
(***************************************************************************)

ThreadsOK == StopTypeOK /\ WatchdogTypeOK

(* The parts of the stop and of the watchdog that steps are made of.        *)
LEMMA TriggerType ==
    ASSUME StopTypeOK, TriggerStop, UNCHANGED <<isStopped, listener, signals>>
    PROVE  StopTypeOK'
<1>1. channel' \in BOOLEAN
    BY Zenon DEF StopTypeOK, TriggerStop, Send
<1> QED BY <1>1 DEF StopTypeOK

LEMMA StartMonitoringType ==
    ASSUME WatchdogTypeOK, StartMonitoring, UNCHANGED <<silent, timedOut>>
    PROVE  WatchdogTypeOK'
BY DEF WatchdogTypeOK, MonitorSteps, StartMonitoring

(* The steps of the threads other than the one that scans.                  *)
LEMMA OtherThreadsType ==
    ASSUME ThreadsOK,
           \/ OtherThreads
           \/ ClockTick
           \/ \E m \in Monitors : MonitorThread(m)
    PROVE  ThreadsOK' /\ (isStopped => isStopped')
<1> USE DEF ThreadsOK
<1>1. CASE OtherThreads
    <2>1. WatchdogTypeOK'
        BY <1>1 DEF OtherThreads, watchdogVars, WatchdogTypeOK
    <2>2. CASE SignalArrives
        <3>1. channel' \in BOOLEAN
            BY <2>2, Zenon DEF SignalArrives, Send
        <3> QED BY <2>1, <2>2, <3>1 DEF SignalArrives, StopTypeOK
    <2>3. CASE ListenerStep
        BY <2>1, <2>3 DEF ListenerStep, ListenerReceives, ListenerSetsFlag, StopTypeOK
    <2> QED BY <1>1, <2>2, <2>3 DEF OtherThreads
<1>2. CASE ClockTick
    BY <1>2 DEF ClockTick, TimePasses, stopVars, StopTypeOK, WatchdogTypeOK
<1>3. ASSUME NEW m \in Monitors, MonitorThread(m)
      PROVE  ThreadsOK' /\ (isStopped => isStopped')
    <2>1. CASE MonitorTriggers(m)
        BY <2>1, TriggerType DEF MonitorTriggers, At, StopTypeOK, WatchdogTypeOK, MonitorSteps
    <2>2. CASE MonitorWakes(m) \/ MonitorLoads(m) \/ MonitorExpires(m)
        BY <2>2 DEF MonitorWakes, MonitorLoads, MonitorExpires, At, stopVars, StopTypeOK,
           WatchdogTypeOK, MonitorSteps
    <2> QED BY <1>3, <2>1, <2>2 DEF MonitorThread, MonitorStep
<1> QED BY <1>1, <1>2, <1>3
(***************************************************************************)
(* Steps                                                                   *)
(***************************************************************************)

(* A step of another thread.                                               *)
LEMMA OtherThreadsKeep ==
    ASSUME RunInv, ThreadsOK', isStopped => isStopped',
           UNCHANGED <<projectVars, phase, scanVars, historyVars>>
    PROVE  RunInv'
<1> USE DEF projectVars, scanVars, historyVars
<1>1. TypeOK'
    BY DEF RunInv, TypeOK, ThreadsOK
<1>2. CurrentOK' /\ PhaseOK' /\ LateOK' /\ SavingOK' /\ RecordedWasAnalysed'
    BY DEF RunInv, CurrentOK, PhaseOK, LateOK, SavingOK, RecordedWasAnalysed, Analysed, TypeOK,
           StopTypeOK
<1>3. PlanOK' /\ ForcedOK'
    BY DEF RunInv, PlanOK, ForcedOK, Planned, Open
<1> QED BY <1>1, <1>2, <1>3 DEF RunInv

(* The end of the process forgets all but the project.                      *)
LEMMA LeaveKeeps ==
    ASSUME RunInv, Leave
    PROVE  RunInv'
<1> USE DEF projectVars
<1>1. StopTypeOK' /\ WatchdogTypeOK'
    BY DEF Leave, ForgetStop, ForgetWatchdog, StopTypeOK, WatchdogTypeOK, MonitorSteps
<1>2. NoFiles \in FileInfos
    BY DEF NoFiles, FileInfos
<1>3. TypeOK'
    BY <1>1, <1>2 DEF RunInv, TypeOK, Leave, Phases, Modes
<1>4. CurrentOK' /\ PhaseOK' /\ LateOK' /\ SavingOK' /\ PlanOK' /\ ForcedOK'
    BY DEF Leave, CurrentOK, PhaseOK, LateOK, SavingOK, PlanOK, ForcedOK, AtAFile
<1>5. RecordedWasAnalysed'
    BY DEF RunInv, Leave, RecordedWasAnalysed
<1> QED BY <1>3, <1>4, <1>5 DEF RunInv

(* An edit or a removal makes no file older; in a forced run it touches it.   *)
LEMMA ChangesKeep ==
    ASSUME RunInv, NEW f \in Files, NEW v \in Versions \cup {Absent}, Changes(f, v),
           v = Absent \/ v > disk[f]
    PROVE  RunInv'
<1> USE DEF scanVars
<1>1. /\ edits < MaxEdits /\ edits' = edits + 1
      /\ disk[f] # Absent
      /\ disk' = [disk EXCEPT ![f] = v]
      /\ touched' = IF mode = "force" THEN touched \cup {f} ELSE touched
      /\ UNCHANGED <<manifest, phase, mode, info, todo, current, seen, excused, left, late,
                     runs, stopVars, watchdogVars>>
    BY DEF Changes
<1>2. TypeOK'
    BY <1>1, ScanBounds DEF RunInv, TypeOK, FileInfos, stopVars, watchdogVars, StopTypeOK,
                            WatchdogTypeOK
<1>3. CurrentOK' /\ PhaseOK' /\ LateOK' /\ SavingOK' /\ RecordedWasAnalysed'
    BY <1>1 DEF RunInv, CurrentOK, PhaseOK, LateOK, SavingOK, RecordedWasAnalysed, Analysed,
                stopVars
<1>4. \A g \in Files \ {f} : disk'[g] = disk[g]
    BY <1>1 DEF RunInv, TypeOK, FileInfos
<1>5. disk'[f] = v
    BY <1>1 DEF RunInv, TypeOK, FileInfos
<1>6. \A g \in Files : Open(g) => Open(g)'
    BY <1>1 DEF Open
<1>7. PlanOK'
    <2> SUFFICES ASSUME mode = "incremental", phase \in Scanning \cup {"save"}
                 PROVE  PlanOK'
        BY <1>1 DEF PlanOK
    <2>1. \A g \in Listed(info) : Planned(g)'
        BY <1>1, <1>6 DEF RunInv, PlanOK, Planned, Listed
    <2>2. \A g \in Files : disk'[g] # Absent => disk'[g] >= info[g]
        <3>1. disk[f] >= info[f] /\ disk[f] \in Nat /\ info[f] \in Nat /\ v \in Nat
            BY <1>1, VersionsType DEF RunInv, PlanOK, TypeOK, FileInfos, Versions, Absent
        <3> QED BY <1>4, <1>5, <3>1 DEF RunInv, PlanOK
    <2> QED BY <1>1, <2>1, <2>2 DEF RunInv, PlanOK
<1>8. ForcedOK'
    <2> SUFFICES ASSUME mode = "force"
                 PROVE  ForcedOK'
        BY <1>1 DEF ForcedOK
    <2>1. f \in touched' /\ Open(f)'
        BY <1>1 DEF Open
    <2>2. \A g \in Files \ {f} : g \in Listed(disk') => g \in Listed(disk)
        BY <1>4 DEF Listed
    <2>3. phase \in Scanning \cup {"collect"} =>
              \A g \in Listed(disk') : disk'[g] <= seen[g] \/ Open(g)'
        BY <1>4, <1>6, <2>1, <2>2 DEF RunInv, ForcedOK, Listed
    <2>4. phase = "analyse" => current[1] \in touched' \/ current[2] >= disk'[current[1]]
        BY <1>1, <1>4, <2>1 DEF RunInv, ForcedOK, CurrentOK, AtAFile, Entries
    <2>5. phase = "save" => \A g \in Listed(info) : info[g] <= seen[g] \/ Open(g)'
        BY <1>6 DEF RunInv, ForcedOK, Listed
    <2> QED BY <1>1, <2>3, <2>4, <2>5 DEF ForcedOK
<1> QED BY <1>2, <1>3, <1>7, <1>8 DEF RunInv

LEMMA EditKeeps ==
    ASSUME RunInv, NEW f \in Files, Edit(f) \/ Remove(f)
    PROVE  RunInv'
<1>1. CASE Edit(f)
    <2>1. disk[f] \in Nat /\ disk[f] + 1 \in Versions
        BY <1>1, VersionsType DEF Edit, RunInv, TypeOK, FileInfos, Versions, Absent
    <2> QED BY <1>1, <2>1, ChangesKeep DEF Edit
<1>2. CASE Remove(f)
    BY <1>2, ChangesKeep DEF Remove
<1> QED BY <1>1, <1>2
(* A run starts with the whole project to scan, or on to its manifest.        *)
LEMMA StartRunKeeps ==
    ASSUME RunInv, NEW m \in Modes, StartRun(m)
    PROVE  RunInv'
<1>1. /\ phase = "idle" /\ runs < MaxRuns /\ runs' = runs + 1
      /\ mode' = m
      /\ phase' = IF m = "incremental" THEN "load" ELSE "start"
      /\ manifest' = manifest \/ (m = "force" /\ manifest' = NoManifest)
      /\ todo' = IF m = "incremental" THEN {} ELSE Listed(disk)
      /\ UNCHANGED <<disk, edits, info, current, seen, excused, left, touched, late,
                     stopVars, watchdogVars>>
    BY DEF StartRun, historyVars
<1>2. TypeOK'
    <2>1. todo' \subseteq Files /\ phase' \in Phases /\ mode' \in Modes
        BY <1>1 DEF Listed, Phases
    <2>2. manifest' \in Manifests /\ runs' \in 0 .. MaxRuns
        BY <1>1, ScanBounds DEF RunInv, TypeOK, Manifests
    <2> QED BY <1>1, <2>1, <2>2 DEF RunInv, TypeOK, stopVars, watchdogVars, StopTypeOK,
                                    WatchdogTypeOK
<1>3. CurrentOK' /\ PhaseOK' /\ LateOK' /\ SavingOK' /\ PlanOK'
    BY <1>1 DEF RunInv, CurrentOK, PhaseOK, LateOK, SavingOK, PlanOK, AtAFile, Scanning, stopVars
<1>4. ForcedOK'
    BY <1>1 DEF ForcedOK, Open, Scanning, AtAFile
<1>5. RecordedWasAnalysed'
    BY <1>1 DEF RunInv, RecordedWasAnalysed
<1> QED BY <1>2, <1>3, <1>4, <1>5 DEF RunInv

(* What an incremental run plans: every file that is not as recorded.         *)
LEMMA LoadKeeps ==
    ASSUME RunInv, Load
    PROVE  RunInv'
<1> DEFINE plan == IF manifest = NoManifest THEN Listed(disk) ELSE FilesToScan(manifest, disk)
<1>1. /\ phase = "load" /\ phase' = "start"
      /\ manifest # Truncated
      /\ info' = disk
      /\ todo' = plan
      /\ UNCHANGED <<disk, manifest, edits, runs, mode, current, seen, excused, left, touched,
                     late, stopVars, watchdogVars>>
    BY DEF Load, projectVars, historyVars
<1>2. plan \subseteq Files
    BY DEF FilesToScan, DirectlyChanged, Listed
<1>3. \A f \in Listed(disk) \ plan : manifest # NoManifest /\ manifest[f] = disk[f]
    BY DEF FilesToScan, DirectlyChanged
<1> HIDE DEF plan
<1>4. TypeOK'
    BY <1>1, <1>2 DEF RunInv, TypeOK, stopVars, watchdogVars, StopTypeOK, WatchdogTypeOK, Phases
<1>5. mode = "incremental"
    BY <1>1 DEF RunInv, PhaseOK
<1>6. CurrentOK' /\ PhaseOK' /\ LateOK' /\ SavingOK' /\ ForcedOK'
    BY <1>1, <1>5 DEF RunInv, CurrentOK, PhaseOK, LateOK, SavingOK, ForcedOK, AtAFile, stopVars
<1>7. PlanOK'
    <2>1. \A f \in Listed(info') : Planned(f)'
        BY <1>1, <1>3 DEF Planned, Open
    <2>2. \A f \in Files : disk[f] >= disk[f]
        BY VersionsType DEF RunInv, TypeOK, FileInfos, Versions, Absent
    <2> QED BY <1>1, <2>1, <2>2 DEF PlanOK
<1>8. RecordedWasAnalysed'
    BY <1>1 DEF RunInv, RecordedWasAnalysed
<1> QED BY <1>4, <1>6, <1>7, <1>8 DEF RunInv

(* A step of the scanning thread between files: what is open stays open.      *)
LEMMA BetweenFiles ==
    ASSUME RunInv, ThreadsOK', isStopped' = isStopped,
           UNCHANGED <<projectVars, mode, info, current, seen, excused, touched, late>>,
           phase \in {"start", "reset", "loop"},
           phase' \in {"reset", "loop", "collect", "save", "report", "between"},
           phase' = "collect" => mode = "force",
           phase' = "save" => mode = "incremental",
           phase' = "between" => mode = "library",
           todo' \subseteq todo,
           phase' \in {"collect", "save"} => todo' = {},
           left' \subseteq Files,
           KeepsManifest => todo \cup left \subseteq todo' \cup left'
    PROVE  RunInv'
<1> USE DEF projectVars
<1>1. TypeOK'
    BY DEF RunInv, TypeOK, ThreadsOK, Phases
<1>2. CurrentOK' /\ PhaseOK' /\ LateOK' /\ SavingOK' /\ RecordedWasAnalysed'
    BY DEF RunInv, CurrentOK, PhaseOK, LateOK, SavingOK, RecordedWasAnalysed, AtAFile
<1>3. KeepsManifest => \A f \in Files : (Open(f) => Open(f)') /\ (Planned(f) => Planned(f)')
    BY DEF Open, Planned
<1>4. PlanOK' /\ ForcedOK'
    BY <1>3 DEF RunInv, PlanOK, ForcedOK, KeepsManifest, Listed, Scanning, AtAFile
<1> QED BY <1>1, <1>2, <1>4 DEF RunInv
LEMMA BeginAndEndKeep ==
    ASSUME RunInv, BeginScan \/ ResetWatchdog \/ LoopHalts \/ LoopEnds
    PROVE  RunInv'
<1> USE DEF Goto
<1>1. CASE BeginScan
    <2>1. ThreadsOK'
        BY <1>1, StartMonitoringType DEF BeginScan, RunInv, TypeOK, ThreadsOK, stopVars,
                                         StopTypeOK
    <2> QED BY <1>1, <2>1, BetweenFiles DEF BeginScan, stopVars, RunInv, TypeOK
<1>2. CASE ResetWatchdog
    <2>1. ThreadsOK'
        BY <1>2 DEF ResetWatchdog, Heartbeat, ResetTimedOut, RunInv, TypeOK, ThreadsOK, stopVars,
                    StopTypeOK, WatchdogTypeOK
    <2> QED BY <1>2, <2>1, BetweenFiles DEF ResetWatchdog, stopVars, RunInv, TypeOK
<1>3. CASE LoopHalts \/ LoopEnds
    <2>1. EndScan
        BY <1>3 DEF LoopHalts, LoopEnds
    <2>2. ThreadsOK'
        BY <2>1 DEF EndScan, StopMonitoring, RunInv, TypeOK, ThreadsOK, stopVars, StopTypeOK,
                    WatchdogTypeOK
    <2>3. /\ phase' \in {"collect", "save", "report", "between"}
          /\ phase' = "collect" => mode = "force"
          /\ phase' = "save" => mode = "incremental"
          /\ phase' = "between" => mode = "library"
        BY <2>1 DEF EndScan, RunInv, TypeOK, Modes
    <2>4. left' \subseteq Files /\ (KeepsManifest => todo \cup left \subseteq left')
        BY <1>3 DEF LoopHalts, LoopEnds, Leaves, RunInv, TypeOK
    <2> QED BY <2>1, <2>2, <2>3, <2>4, BetweenFiles DEF EndScan, stopVars
<1> QED BY <1>1, <1>2, <1>3

LEMMA WalkFailsKeeps ==
    ASSUME RunInv, WalkFails
    PROVE  RunInv'
<1>1. CASE mode = "library"
    <2>1. ThreadsOK'
        BY <1>1 DEF WalkFails, RunInv, TypeOK, ThreadsOK, stopVars, watchdogVars, StopTypeOK,
                    WatchdogTypeOK
    <2> QED BY <1>1, <2>1, BetweenFiles DEF WalkFails, historyVars, stopVars, RunInv, TypeOK,
                                            KeepsManifest
<1>2. CASE Leave
    BY <1>2, LeaveKeeps
<1> QED BY <1>1, <1>2 DEF WalkFails

(* The entry the loop takes is open as the one it is at; nobody has set the    *)
(* stop flag yet.                                                           *)
LEMMA NextEntryKeeps ==
    ASSUME RunInv, NEW f \in Files, NextEntry(f)
    PROVE  RunInv'
<1>1. /\ phase = "loop" /\ phase' = "read"
      /\ f \in todo /\ ~isStopped
      /\ todo' = todo \ {f}
      /\ current' = <<f, Absent>>
      /\ UNCHANGED <<disk, manifest, edits, runs, mode, info, excused, touched, seen, left, late,
                     stopVars>>
    BY DEF NextEntry, Goto, projectVars, Halted
<1>2. ThreadsOK'
    BY <1>1 DEF NextEntry, Heartbeat, RunInv, TypeOK, ThreadsOK, stopVars, StopTypeOK,
                WatchdogTypeOK
<1>3. TypeOK'
    BY <1>1, <1>2 DEF RunInv, TypeOK, ThreadsOK, Phases
<1>4. CurrentOK' /\ PhaseOK' /\ LateOK' /\ SavingOK' /\ RecordedWasAnalysed'
    BY <1>1 DEF RunInv, CurrentOK, PhaseOK, LateOK, SavingOK, RecordedWasAnalysed, AtAFile,
                Entries, stopVars
<1>5. current'[1] = f
    BY <1>1
<1>6. \A g \in Files : (Open(g) => Open(g)') /\ (Planned(g) => Planned(g)')
    BY <1>1, <1>5 DEF Open, Planned
<1>7. PlanOK' /\ ForcedOK'
    BY <1>1, <1>6 DEF RunInv, PlanOK, ForcedOK, Listed, Scanning, AtAFile
<1> QED BY <1>3, <1>4, <1>7 DEF RunInv

(* What is read is what is on disk.                                         *)
LEMMA ReadKeeps ==
    ASSUME RunInv, Read
    PROVE  RunInv'
<1> DEFINE f == current[1]
<1>1. /\ phase = "read" /\ phase' = "analyse"
      /\ disk[f] # Absent
      /\ current' = <<f, disk[f]>>
      /\ late' = IF isStopped THEN late + 1 ELSE late
      /\ UNCHANGED <<disk, manifest, edits, runs, mode, info, excused, touched, todo, seen, left,
                     stopVars, watchdogVars>>
    BY DEF Read, Goto, projectVars
<1>2. f \in Files
    BY <1>1 DEF RunInv, CurrentOK, AtAFile, Entries
<1>3. current'[1] = f /\ current'[2] = disk[f]
    BY <1>1
<1> HIDE DEF f
<1>4. disk[f] \in Nat /\ disk[f] \in Versions \cup {Absent}
    BY <1>2, VersionsType DEF RunInv, TypeOK, FileInfos, Versions, Absent
<1>5. CurrentOK'
    BY <1>1, <1>2, <1>4 DEF CurrentOK, AtAFile, Entries
<1>6. TypeOK'
    <2>1. late' \in Nat
        BY <1>1 DEF RunInv, TypeOK
    <2>2. current' \in Files \X (Versions \cup {Absent})
        BY <1>1, <1>2, <1>4
    <2> QED BY <1>1, <2>1, <2>2 DEF RunInv, TypeOK, Phases, stopVars, watchdogVars, StopTypeOK,
                                    WatchdogTypeOK
<1>7. PhaseOK' /\ SavingOK' /\ RecordedWasAnalysed'
    BY <1>1 DEF RunInv, PhaseOK, SavingOK, RecordedWasAnalysed
<1>8. LateOK'
    BY <1>1 DEF RunInv, TypeOK, LateOK, stopVars
<1>9. \A g \in Files : (Open(g) => Open(g)') /\ (Planned(g) => Planned(g)')
    BY <1>1, <1>3 DEF Open, Planned, f
<1>10. PlanOK'
    BY <1>1, <1>2, <1>3, <1>4, <1>9 DEF RunInv, PlanOK, Listed, Scanning, AtAFile
<1>11. ForcedOK'
    BY <1>1, <1>2, <1>3, <1>4, <1>9 DEF RunInv, ForcedOK, Listed, Scanning, AtAFile
<1> QED BY <1>5, <1>6, <1>7, <1>8, <1>10, <1>11 DEF RunInv
(* A step that decides on the file the thread is at: the file was analysed in  *)
(* full, or the scan gives it up.                                             *)
LEMMA DecidedKeeps ==
    ASSUME RunInv, ThreadsOK', isStopped' = isStopped,
           UNCHANGED <<projectVars, mode, info, excused, touched, todo, late>>,
           phase \in AtAFile,
           \/ phase' = "loop" /\ current' = NoEntry
           \/ phase = "analyse" /\ phase' = "trigger" /\ current' = current,
           seen' \in FileInfos,
           \A f \in Files : seen[f] <= seen'[f],
           left \subseteq left' /\ left' \subseteq Files,
           KeepsManifest /\ phase \in {"read", "analyse"} =>
               \/ current[1] \in left'
               \/ phase = "analyse" /\ current[2] <= seen'[current[1]]
    PROVE  RunInv'
<1> USE DEF projectVars
<1>1. TypeOK'
    BY DEF RunInv, TypeOK, ThreadsOK, Phases, CurrentOK, AtAFile, Entries
<1>2. CurrentOK' /\ PhaseOK' /\ LateOK' /\ SavingOK'
    BY DEF RunInv, CurrentOK, PhaseOK, LateOK, SavingOK, AtAFile
<1>3. /\ \A f \in Files : disk[f] \in Nat /\ info[f] \in Nat /\ seen[f] \in Nat /\ seen'[f] \in Nat
      /\ current[1] \in Files /\ current[2] \in Nat
    BY VersionsType DEF RunInv, TypeOK, FileInfos, Versions, Absent, CurrentOK, Entries
<1>4. RecordedWasAnalysed'
    <2> SUFFICES ASSUME manifest \notin {NoManifest, Truncated}
                 PROVE  \A f \in Listed(manifest) :
                            manifest[f] <= seen'[f] \/ <<f, manifest[f]>> \in excused
        BY DEF RecordedWasAnalysed
    <2>1. \A f \in Files : manifest[f] \in Nat
        BY VersionsType DEF RunInv, TypeOK, Manifests, FileInfos, Versions, Absent
    <2> QED BY <1>3, <2>1 DEF RunInv, RecordedWasAnalysed, Listed
<1>5. \A f \in Files : Open(f) => Open(f)' \/ (phase \in {"read", "analyse"} /\ f = current[1])
    BY DEF Open
<1>6. PlanOK'
    <2> SUFFICES ASSUME mode = "incremental"
                 PROVE  PlanOK'
        BY DEF PlanOK
    <2>1. phase \in Scanning /\ phase' \in Scanning /\ phase' # "analyse" /\ KeepsManifest
        BY DEF Scanning, AtAFile, KeepsManifest
    <2>2. ASSUME NEW f \in Listed(info)
          PROVE  Planned(f)'
        <3>1. f \in Files /\ Planned(f)
            BY <2>1 DEF RunInv, PlanOK, Listed
        <3>2. CASE info[f] <= seen[f] \/ (manifest # NoManifest /\ manifest[f] = info[f])
            BY <1>3, <3>1, <3>2 DEF Planned
        <3>3. CASE Open(f)'
            BY <3>3 DEF Planned
        <3>4. CASE phase \in {"read", "analyse"} /\ f = current[1]
            <4>1. CASE f \in left'
                BY <4>1 DEF Planned, Open
            <4>2. CASE phase = "analyse" /\ current[2] <= seen'[f]
                <5>1. current[2] >= info[f]
                    BY <2>1, <3>4, <4>2 DEF RunInv, PlanOK
                <5>2. info[f] <= seen'[f]
                    BY <1>3, <3>1, <4>2, <5>1
                <5> QED BY <5>2 DEF Planned
            <4> QED BY <2>1, <3>4, <4>1, <4>2
        <3> QED BY <1>5, <3>1, <3>2, <3>3, <3>4 DEF Planned
    <2> QED BY <2>1, <2>2 DEF RunInv, PlanOK
<1>7. ForcedOK'
    <2> SUFFICES ASSUME mode = "force"
                 PROVE  ForcedOK'
        BY DEF ForcedOK
    <2>1. phase \in Scanning /\ phase' \in Scanning /\ phase' \notin {"analyse", "save"}
          /\ KeepsManifest
        BY DEF Scanning, AtAFile, KeepsManifest
    <2>2. ASSUME NEW f \in Listed(disk)
          PROVE  disk[f] <= seen'[f] \/ Open(f)'
        <3>1. f \in Files /\ (disk[f] <= seen[f] \/ Open(f))
            BY <2>1 DEF RunInv, ForcedOK, Listed
        <3>2. CASE disk[f] <= seen[f]
            BY <1>3, <3>1, <3>2
        <3>3. CASE phase \in {"read", "analyse"} /\ f = current[1]
            <4>1. CASE f \in left' \cup touched
                BY <4>1 DEF Open
            <4>2. CASE f \notin touched /\ phase = "analyse" /\ current[2] <= seen'[f]
                <5>1. current[2] >= disk[f]
                    BY <3>3, <4>2 DEF RunInv, ForcedOK
                <5> QED BY <1>3, <3>1, <4>2, <5>1
            <4> QED BY <2>1, <3>3, <4>1, <4>2
        <3> QED BY <1>5, <3>1, <3>2, <3>3
    <2> QED BY <2>1, <2>2 DEF ForcedOK
<1> QED BY <1>1, <1>2, <1>4, <1>6, <1>7 DEF RunInv

(* A full analysis is of the version that was read.                          *)
LEMMA AnalysedInFullSees ==
    ASSUME RunInv, phase = "analyse", AnalysedInFull
    PROVE  /\ seen' \in FileInfos
           /\ \A f \in Files : seen[f] <= seen'[f]
           /\ KeepsManifest => current[2] <= seen'[current[1]]
<1> DEFINE f == current[1]
           v == current[2]
<1>1. f \in Files /\ v \in Versions \cup {Absent}
    BY DEF RunInv, CurrentOK, AtAFile, Entries
<1>2. \A g \in Files : seen[g] \in Versions \cup {Absent}
    BY DEF RunInv, TypeOK, FileInfos
<1>3. Versions \cup {Absent} \subseteq Nat
    BY VersionsType DEF Versions, Absent
<1>4. seen' = [seen EXCEPT ![f] = IF KeepsManifest /\ seen[f] < v THEN v ELSE seen[f]]
    BY DEF AnalysedInFull
<1> HIDE DEF f, v
<1>5. seen \in FileInfos
    BY DEF RunInv, TypeOK
<1>6. seen' \in FileInfos
    BY <1>1, <1>2, <1>4, <1>5 DEF FileInfos
<1>7. \A g \in Files \ {f} : seen'[g] = seen[g]
    BY <1>4, <1>5 DEF FileInfos
<1>8. seen'[f] = IF KeepsManifest /\ seen[f] < v THEN v ELSE seen[f]
    BY <1>1, <1>4, <1>5 DEF FileInfos
<1>9. seen[f] <= seen'[f] /\ (KeepsManifest => v <= seen'[f])
    BY <1>1, <1>2, <1>3, <1>8
<1>10. \A g \in Files : seen[g] <= seen'[g]
    BY <1>2, <1>3, <1>7, <1>9
<1> QED BY <1>6, <1>9, <1>10 DEF f, v
LEMMA FileStepsKeep ==
    ASSUME RunInv, ReadFails \/ AnalyseFails \/ AnalyseIgnored \/ AnalyseEnds \/ TriggerCritical
    PROVE  RunInv'
<1> USE DEF Goto, AtAFile
<1>1. /\ \A f \in Files : seen[f] <= seen[f]
      /\ seen \in FileInfos /\ left \subseteq Files
      /\ phase \in AtAFile => current[1] \in Files
      /\ ThreadsOK
    BY VersionsType DEF RunInv, TypeOK, ThreadsOK, FileInfos, Versions, Absent, CurrentOK, Entries
<1>2. CASE ReadFails
    <2>1. ThreadsOK'
        BY <1>1, <1>2 DEF ReadFails, stopVars, watchdogVars, ThreadsOK, StopTypeOK, WatchdogTypeOK
    <2>2. left \subseteq left' /\ left' \subseteq Files /\ (KeepsManifest => current[1] \in left')
        BY <1>1, <1>2 DEF ReadFails, Leaves
    <2> QED BY <1>1, <1>2, <2>1, <2>2, DecidedKeeps DEF ReadFails, Done, stopVars
<1>3. CASE AnalyseFails
    <2>1. ThreadsOK'
        BY <1>1, <1>3 DEF AnalyseFails, stopVars, watchdogVars, ThreadsOK, StopTypeOK,
                          WatchdogTypeOK
    <2>2. left \subseteq left' /\ left' \subseteq Files /\ (KeepsManifest => current[1] \in left')
        BY <1>1, <1>3 DEF AnalyseFails, Leaves
    <2> QED BY <1>1, <1>3, <2>1, <2>2, DecidedKeeps DEF AnalyseFails, Done, stopVars
<1>4. CASE AnalyseIgnored
    <2>1. ThreadsOK'
        BY <1>1, <1>4 DEF AnalyseIgnored, stopVars, watchdogVars, ThreadsOK, StopTypeOK,
                          WatchdogTypeOK
    <2> QED BY <1>1, <1>4, <2>1, AnalysedInFullSees, DecidedKeeps DEF AnalyseIgnored, Done, stopVars
<1>5. CASE AnalyseEnds
    <2>1. ThreadsOK'
        BY <1>1, <1>5 DEF AnalyseEnds, Heartbeat, stopVars, ThreadsOK, StopTypeOK, WatchdogTypeOK
    <2>2. /\ phase = "analyse"
          /\ \/ phase' = "loop" /\ current' = NoEntry
             \/ phase' = "trigger" /\ current' = current
          /\ UNCHANGED <<projectVars, mode, info, excused, touched, todo, late, isStopped>>
        BY <1>5 DEF AnalyseEnds, Done, stopVars
    <2>3. CASE AnalysedInFull /\ UNCHANGED left
        BY <1>1, <2>1, <2>2, <2>3, AnalysedInFullSees, DecidedKeeps
    <2>4. CASE Leaves({current[1]}) /\ UNCHANGED seen
        <3>1. left \subseteq left' /\ left' \subseteq Files
              /\ (KeepsManifest => current[1] \in left')
            BY <1>1, <2>2, <2>4 DEF Leaves
        <3> QED BY <1>1, <2>1, <2>2, <2>4, <3>1, DecidedKeeps
    <2> QED BY <1>5, <2>3, <2>4 DEF AnalyseEnds
<1>6. CASE TriggerCritical
    <2>1. ThreadsOK'
        BY <1>1, <1>6, TriggerType DEF TriggerCritical, watchdogVars, ThreadsOK, WatchdogTypeOK
    <2> QED BY <1>1, <1>6, <2>1, DecidedKeeps DEF TriggerCritical, Done
<1> QED BY <1>2, <1>3, <1>4, <1>5, <1>6

(***************************************************************************)
(* After the scan                                                          *)
(***************************************************************************)

(* What a forced run finds after its scan is what it has scanned, given up, or *)
(* what was touched.                                                         *)
LEMMA CollectKeeps ==
    ASSUME RunInv, CollectInfo
    PROVE  RunInv'
<1>1. /\ phase = "collect" /\ phase' = "save" /\ info' = disk
      /\ UNCHANGED <<disk, manifest, edits, runs, mode, todo, current, seen, excused, left,
                     touched, late, stopVars, watchdogVars>>
      /\ mode = "force"
    BY DEF CollectInfo, projectVars, historyVars, RunInv, PhaseOK
<1>2. TypeOK'
    BY <1>1 DEF RunInv, TypeOK, Phases, stopVars, watchdogVars, StopTypeOK, WatchdogTypeOK
<1>3. CurrentOK' /\ PhaseOK' /\ LateOK' /\ PlanOK' /\ SavingOK' /\ RecordedWasAnalysed'
    BY <1>1 DEF RunInv, CurrentOK, PhaseOK, LateOK, PlanOK, SavingOK, RecordedWasAnalysed, AtAFile,
                stopVars
<1>4. \A f \in Files : Open(f) => Open(f)'
    BY <1>1 DEF Open
<1>5. ForcedOK'
    BY <1>1, <1>4 DEF RunInv, ForcedOK, Listed, Scanning, AtAFile
<1> QED BY <1>2, <1>3, <1>5 DEF RunInv

(* What is about to be written was analysed, or is excused: as the manifest it *)
(* comes from, or as one of the gaps.                                         *)
LEMMA SaveTruncatesKeeps ==
    ASSUME RunInv, SaveTruncates
    PROVE  RunInv'
<1>1. /\ phase = "save" /\ phase' = "saving" /\ manifest' = Truncated
      /\ info' = UpdatedManifest(Base, info)
      /\ excused' = excused \cup Gaps
      /\ UNCHANGED <<disk, edits, runs, mode, todo, current, seen, left, touched, late,
                     watchdogVars, stopVars>>
      /\ todo = {}
    BY DEF SaveTruncates, RunInv, PhaseOK
<1>2. mode = "force" \/ (mode = "incremental" /\ manifest # Truncated)
    BY <1>1 DEF RunInv, PhaseOK, PlanOK
<1>3. NoFiles \in FileInfos
    BY DEF NoFiles, FileInfos
<1>4. Base \in FileInfos
    BY <1>2, <1>3 DEF Base, RunInv, TypeOK, Manifests
<1>5. info' \in FileInfos
    BY <1>1, <1>4 DEF UpdatedManifest, FileInfos, RunInv, TypeOK
<1>6. Gaps \subseteq Files \X Versions
    BY DEF Gaps, Listed, RunInv, TypeOK, FileInfos
<1>7. TypeOK'
    BY <1>1, <1>5, <1>6 DEF RunInv, TypeOK, Phases, stopVars, watchdogVars, StopTypeOK,
                            WatchdogTypeOK, Manifests
<1>8. CurrentOK' /\ PhaseOK' /\ LateOK' /\ PlanOK' /\ ForcedOK' /\ RecordedWasAnalysed'
    BY <1>1, <1>2 DEF RunInv, CurrentOK, PhaseOK, LateOK, PlanOK, ForcedOK, RecordedWasAnalysed,
                      AtAFile, Scanning, stopVars
<1>9. ASSUME NEW f \in Listed(info')
      PROVE  info'[f] <= seen[f] \/ <<f, info'[f]>> \in excused'
    <2>1. f \in Files /\ info'[f] # Absent
        BY DEF Listed
    <2>2. info'[f] = IF info[f] = Absent THEN Base[f] ELSE info[f]
        BY <1>1, <2>1 DEF UpdatedManifest
    <2>3. CASE info[f] = Absent
        <3>1. Base[f] # Absent
            BY <2>1, <2>2, <2>3
        <3>2. Base = manifest /\ manifest \notin {NoManifest, Truncated}
            BY <1>2, <2>1, <3>1 DEF Base, NoFiles
        <3> QED BY <1>1, <2>1, <2>2, <2>3, <3>1, <3>2 DEF RunInv, RecordedWasAnalysed, Listed
    <2>4. CASE info[f] # Absent
        <3>1. f \in Listed(info) /\ info'[f] = info[f]
            BY <2>1, <2>2, <2>4 DEF Listed
        <3>2. CASE info[f] <= seen[f]
            BY <3>1, <3>2
        <3>3. CASE Open(f)
            BY <1>1, <3>1, <3>3 DEF Open, Gaps
        <3>4. CASE mode = "incremental" /\ manifest # NoManifest /\ manifest[f] = info[f]
            BY <1>1, <1>2, <2>1, <2>4, <3>1, <3>4 DEF RunInv, RecordedWasAnalysed, Listed
        <3>5. CASE mode = "force"
            BY <1>1, <3>1, <3>2, <3>3, <3>5 DEF RunInv, ForcedOK
        <3> QED BY <1>1, <1>2, <3>1, <3>2, <3>3, <3>4, <3>5 DEF RunInv, PlanOK, Planned
    <2> QED BY <2>3, <2>4
<1>10. SavingOK'
    BY <1>1, <1>9 DEF SavingOK, Analysed
<1> QED BY <1>7, <1>8, <1>10 DEF RunInv

LEMMA SaveWritesKeeps ==
    ASSUME RunInv, SaveWrites
    PROVE  RunInv'
<1>1. /\ phase = "saving" /\ phase' = "report" /\ manifest' = info
      /\ UNCHANGED <<disk, edits, runs, mode, info, todo, current, seen, excused, left, touched,
                     late, watchdogVars, stopVars>>
    BY DEF SaveWrites, scanVars, historyVars
<1>2. TypeOK'
    BY <1>1 DEF RunInv, TypeOK, Phases, stopVars, watchdogVars, StopTypeOK, WatchdogTypeOK,
                Manifests
<1>3. CurrentOK' /\ PhaseOK' /\ LateOK' /\ PlanOK' /\ ForcedOK' /\ SavingOK'
    BY <1>1 DEF RunInv, CurrentOK, PhaseOK, LateOK, PlanOK, ForcedOK, SavingOK, AtAFile, Scanning,
                stopVars
<1>4. RecordedWasAnalysed'
    BY <1>1 DEF RunInv, SavingOK, Analysed, RecordedWasAnalysed
<1> QED BY <1>2, <1>3, <1>4 DEF RunInv

(* Only a scanner object that keeps no manifest scans again.                 *)
LEMMA ScanAgainKeeps ==
    ASSUME RunInv, ScanAgain
    PROVE  RunInv'
<1>1. /\ phase = "between" /\ phase' = "start" /\ mode = "library"
      /\ todo' = Listed(disk)
      /\ UNCHANGED <<disk, manifest, edits, runs, mode, info, current, seen, excused, left, touched,
                     late, watchdogVars, stopVars>>
    BY DEF ScanAgain, projectVars, historyVars, RunInv, PhaseOK
<1>2. TypeOK'
    BY <1>1 DEF RunInv, TypeOK, Phases, stopVars, watchdogVars, StopTypeOK, WatchdogTypeOK, Listed
<1>3. CurrentOK' /\ PhaseOK' /\ LateOK' /\ PlanOK' /\ ForcedOK' /\ SavingOK' /\ RecordedWasAnalysed'
    BY <1>1 DEF RunInv, CurrentOK, PhaseOK, LateOK, PlanOK, ForcedOK, SavingOK, AtAFile, stopVars,
                RecordedWasAnalysed
<1> QED BY <1>2, <1>3 DEF RunInv

LEMMA RunInvStep ==
    ASSUME RunInv, [Next]_vars
    PROVE  RunInv'
<1>1. ThreadsOK
    BY DEF RunInv, TypeOK, ThreadsOK
<1>2. CASE UNCHANGED vars
    <2>1. ThreadsOK' /\ UNCHANGED <<isStopped, projectVars, phase, scanVars, historyVars>>
        BY <1>1, <1>2 DEF vars, stopVars, watchdogVars, ThreadsOK, StopTypeOK, WatchdogTypeOK,
                          projectVars, scanVars, historyVars
    <2> QED BY <2>1, OtherThreadsKeep
<1>3. CASE OtherThreads \/ ClockTick \/ \E m \in Monitors : MonitorThread(m)
    <2>1. ThreadsOK' /\ (isStopped => isStopped')
        BY <1>1, <1>3, OtherThreadsType
    <2>2. UNCHANGED <<projectVars, phase, scanVars, historyVars>>
        BY <1>3 DEF OtherThreads, ClockTick, MonitorThread
    <2> QED BY <2>1, <2>2, OtherThreadsKeep
<1>4. CASE LoadFails \/ Crash \/ Report \/ EndSession
    BY <1>4, LeaveKeeps DEF LoadFails, Crash, Report, EndSession
<1>5. CASE ScanThread
    BY <1>4, <1>5, LoadKeeps, BeginAndEndKeep, WalkFailsKeeps, NextEntryKeeps, ReadKeeps,
       FileStepsKeep, CollectKeeps, SaveTruncatesKeeps, SaveWritesKeeps DEF ScanThread
<1>6. CASE \E f \in Files : Edit(f) \/ Remove(f)
    BY <1>6, EditKeeps
<1>7. CASE \E m \in Modes : StartRun(m)
    BY <1>7, StartRunKeeps
<1> QED BY <1>2, <1>3, <1>4, <1>5, <1>6, <1>7, ScanAgainKeeps DEF Next

LEMMA RunInvHolds == Spec => []RunInv
<1>1. RunInv /\ [Next]_vars => RunInv'
    BY RunInvStep
<1> QED BY <1>1, RunInvInit, PTL DEF Spec

(***************************************************************************)
(* Theorems                                                                *)
(***************************************************************************)

(* Every variable keeps to its type.                                       *)
THEOREM ScanTypes == Spec => []TypeOK
<1>1. RunInv => TypeOK
    BY DEF RunInv
<1> QED BY <1>1, RunInvHolds, PTL

(* However files are edited, runs are killed, stopped or forced and monitors    *)
(* and signals interleave, the manifest records no version newer than the       *)
(* newest one analysed in full, but for the gaps.                             *)
THEOREM ManifestTellsTheTruth == Spec => []RecordedWasAnalysed
<1>1. RunInv => RecordedWasAnalysed
    BY DEF RunInv
<1> QED BY <1>1, RunInvHolds, PTL

(* After the stop flag is set at most one more file is read, whatever sets the  *)
(* flag and whenever.                                                        *)
THEOREM OneFileAfterStop == Spec => []AtMostOneFileAfterStop
<1>1. RunInv => AtMostOneFileAfterStop
    BY DEF RunInv, LateOK, AtMostOneFileAfterStop
<1> QED BY <1>1, RunInvHolds, PTL

(***************************************************************************)
(* The plan: what is reached breadth-first is closed under imports          *)
(***************************************************************************)

Importers(reached, record) == {f \in Listed(record) : Resolved(f, record) \cap reached # {}}

\* The recursive function FilesToScan is built from.
IsReached(g, recorded, record) ==
    g = [n \in 0 .. Cardinality(Files) |->
            IF n = 0
            THEN DirectlyChanged(recorded, record)
            ELSE g[n - 1] \cup {f \in Listed(record) : Resolved(f, record) \cap g[n - 1] # {}}]

LEMMA PlanUnfolds ==
    ASSUME NEW recorded, NEW record
    PROVE  FilesToScan(recorded, record) =
               DirectlyChanged(recorded, record) \cup
               {f \in Listed(record) :
                    f \in (CHOOSE g : IsReached(g, recorded, record))[Cardinality(Files)]}
BY DEF FilesToScan, IsReached

\* A way of n imports or fewer from a changed file.
IsPath(p, n, recorded, record) ==
    /\ p[0] \in DirectlyChanged(recorded, record)
    /\ \A i \in 1 .. n :
        p[i] = p[i - 1] \/ (p[i] \in Listed(record) /\ p[i - 1] \in Resolved(p[i], record))

WithinSteps(n, recorded, record) ==
    {f \in Files : \E p \in [0 .. n -> Files] : IsPath(p, n, recorded, record) /\ p[n] = f}

(* One more import is one more level.                                        *)
LEMMA LevelUnfolds ==
    ASSUME NEW recorded, NEW record, NEW n \in Nat
    PROVE  WithinSteps(n + 1, recorded, record) =
               WithinSteps(n, recorded, record) \cup Importers(WithinSteps(n, recorded, record), record)
<1> DEFINE A == WithinSteps(n, recorded, record)
<1>1. ASSUME NEW f \in WithinSteps(n + 1, recorded, record)
      PROVE  f \in A \cup Importers(A, record)
    <2>1. PICK p \in [0 .. n + 1 -> Files] : IsPath(p, n + 1, recorded, record) /\ p[n + 1] = f
        BY <1>1 DEF WithinSteps
    <2> DEFINE q == [i \in 0 .. n |-> p[i]]
    <2>2. q \in [0 .. n -> Files]
        BY <2>1
    <2>3. IsPath(q, n, recorded, record)
        <3>1. q[0] = p[0] /\ \A i \in 1 .. n : q[i] = p[i] /\ q[i - 1] = p[i - 1]
            OBVIOUS
        <3>2. \A i \in 1 .. n : i \in 1 .. n + 1
            OBVIOUS
        <3> QED BY <2>1, <3>1, <3>2 DEF IsPath
    <2>4. p[n] \in Files /\ q[n] = p[n]
        BY <2>1
    <2>5. p[n] \in A
        BY <2>2, <2>3, <2>4 DEF WithinSteps
    <2>6. p[n + 1] = p[n] \/ (p[n + 1] \in Listed(record) /\ p[n] \in Resolved(p[n + 1], record))
        <3>1. n + 1 \in 1 .. n + 1 /\ (n + 1) - 1 = n
            OBVIOUS
        <3> QED BY <2>1, <3>1 DEF IsPath
    <2> HIDE DEF A
    <2> QED BY <2>1, <2>5, <2>6 DEF Importers
<1>2. ASSUME NEW f \in A \cup Importers(A, record)
      PROVE  f \in WithinSteps(n + 1, recorded, record)
    <2>1. PICK h \in A : f \in Files /\ (f = h \/ (f \in Listed(record) /\ h \in Resolved(f, record)))
        BY <1>2 DEF Importers, WithinSteps, Listed
    <2>2. PICK p \in [0 .. n -> Files] : IsPath(p, n, recorded, record) /\ p[n] = h
        BY <2>1 DEF WithinSteps
    <2> DEFINE q == [i \in 0 .. n + 1 |-> IF i = n + 1 THEN f ELSE p[i]]
    <2>3. q \in [0 .. n + 1 -> Files]
        BY <2>1, <2>2
    <2>4. /\ q[0] = p[0] /\ q[n + 1] = f /\ q[n] = p[n]
          /\ \A i \in 1 .. n : q[i] = p[i] /\ q[i - 1] = p[i - 1]
        OBVIOUS
    <2> HIDE DEF q
    <2>5. IsPath(q, n + 1, recorded, record)
        <3>1. q[0] \in DirectlyChanged(recorded, record)
            BY <2>2, <2>4 DEF IsPath
        <3>2. ASSUME NEW i \in 1 .. n + 1
              PROVE  \/ q[i] = q[i - 1]
                     \/ q[i] \in Listed(record) /\ q[i - 1] \in Resolved(q[i], record)
            <4>1. CASE i = n + 1
                <5>1. q[i] = f /\ q[i - 1] = h
                    BY <2>2, <2>4, <4>1
                <5> QED BY <2>1, <5>1
            <4>2. CASE i # n + 1
                <5>1. i \in 1 .. n
                    BY <4>2
                <5> QED BY <2>2, <2>4, <5>1 DEF IsPath
            <4> QED BY <4>1, <4>2
        <3> QED BY <3>1, <3>2 DEF IsPath
    <2> QED BY <2>1, <2>3, <2>4, <2>5 DEF WithinSteps
<1> QED BY <1>1, <1>2

LEMMA LevelZero ==
    ASSUME NEW recorded, NEW record
    PROVE  WithinSteps(0, recorded, record) = DirectlyChanged(recorded, record)
<1>1. ASSUME NEW f \in DirectlyChanged(recorded, record)
      PROVE  f \in WithinSteps(0, recorded, record)
    <2> DEFINE p == [i \in 0 .. 0 |-> f]
    <2>1. f \in Files
        BY DEF DirectlyChanged, Listed
    <2>2. p \in [0 .. 0 -> Files] /\ p[0] = f
        BY <2>1
    <2>3. IsPath(p, 0, recorded, record)
        BY <2>2 DEF IsPath
    <2> QED BY <2>1, <2>2, <2>3 DEF WithinSteps
<1>2. WithinSteps(0, recorded, record) \subseteq DirectlyChanged(recorded, record)
    BY DEF WithinSteps, IsPath
<1> QED BY <1>1, <1>2

(* The recursion has a solution, so that the one chosen is one.               *)
LEMMA ReachedUnfolds ==
    ASSUME NEW recorded, NEW record
    PROVE  LET g == CHOOSE h : IsReached(h, recorded, record)
           IN  /\ g[0] = DirectlyChanged(recorded, record)
               /\ \A n \in 0 .. Cardinality(Files) :
                    n # 0 => g[n] = g[n - 1] \cup Importers(g[n - 1], record)
<1> DEFINE N == Cardinality(Files)
           w == [n \in 0 .. N |-> WithinSteps(n, recorded, record)]
           g == CHOOSE h : IsReached(h, recorded, record)
<1>1. N \in Nat
    BY FilesFinite, FS_CardinalityType
<1>2. ASSUME NEW n \in 0 .. N
      PROVE  w[n] = IF n = 0 THEN DirectlyChanged(recorded, record)
                             ELSE w[n - 1] \cup Importers(w[n - 1], record)
    <2>1. CASE n = 0
        BY <2>1, LevelZero
    <2>2. CASE n # 0
        <3>1. PICK k \in Nat : n = k + 1 /\ k \in 0 .. N
            <4>1. n - 1 \in Nat /\ n = (n - 1) + 1 /\ n - 1 \in 0 .. N
                BY <1>1, <2>2
            <4> QED BY <4>1
        <3>2. w[n] = WithinSteps(k + 1, recorded, record) /\ w[n - 1] = WithinSteps(k, recorded, record) /\ n # 0
            BY <3>1, <2>2
        <3> HIDE DEF w
        <3> QED BY <3>1, <3>2, LevelUnfolds
    <2> QED BY <2>1, <2>2
<1>3. IsReached(w, recorded, record)
    <2> DEFINE v == [n \in 0 .. N |-> IF n = 0 THEN DirectlyChanged(recorded, record)
                                      ELSE w[n - 1] \cup Importers(w[n - 1], record)]
    <2>1. \A n \in 0 .. N : w[n] = v[n]
        BY <1>2
    <2>2. w = v
        <3>1. w = [n \in 0 .. N |-> w[n]] /\ v = [n \in 0 .. N |-> v[n]]
            OBVIOUS
        <3> HIDE DEF w, v
        <3> QED BY <2>1, <3>1
    <2> HIDE DEF w
    <2> QED BY <2>2 DEF IsReached, Importers
<1>4. IsReached(g, recorded, record)
    BY <1>3
<1> HIDE DEF g
<1>5. g = [n \in 0 .. N |-> IF n = 0 THEN DirectlyChanged(recorded, record)
                            ELSE g[n - 1] \cup Importers(g[n - 1], record)]
    BY <1>4 DEF IsReached, Importers
<1>6. \A n \in 0 .. N : g[n] = IF n = 0 THEN DirectlyChanged(recorded, record)
                                        ELSE g[n - 1] \cup Importers(g[n - 1], record)
    BY <1>5
<1>7. 0 \in 0 .. N
    BY <1>1
<1> QED BY <1>6, <1>7 DEF g

(* A breadth-first search of as many levels as there are files ends closed:     *)
(* each level that is not closed adds a file.                                  *)
LEMMA SearchIsClosed ==
    ASSUME NEW recorded, NEW record
    PROVE  LET all == (CHOOSE g : IsReached(g, recorded, record))[Cardinality(Files)]
           IN  /\ Importers(all, record) \subseteq all
               /\ DirectlyChanged(recorded, record) \subseteq all
               /\ \A f \in all : \/ f \in DirectlyChanged(recorded, record)
                                 \/ f \in Importers(all, record)
<1> DEFINE N == Cardinality(Files)
           g == CHOOSE h : IsReached(h, recorded, record)
           Step(r) == r \cup Importers(r, record)
           changed == DirectlyChanged(recorded, record)
           \* What is to hold of level n.
           Good(n) == /\ g[n] \subseteq Files
                      /\ Step(g[n]) = g[n] \/ Cardinality(g[n]) >= n
                      /\ changed \subseteq g[n]
                      /\ \A f \in g[n] : f \in changed \/ f \in Importers(g[n], record)
           Bad == {n \in 0 .. N : ~Good(n)}
<1>1. N \in Nat
    BY FilesFinite, FS_CardinalityType
<1>2. g[0] = changed /\ \A n \in 0 .. N : n # 0 => g[n] = Step(g[n - 1])
    BY ReachedUnfolds
<1>3. changed \subseteq Files
    BY DEF DirectlyChanged, Listed
<1> HIDE DEF g, N
<1>4. Good(0)
    <2>1. Cardinality(changed) \in Nat
        BY <1>3, FilesFinite, FS_Subset, FS_CardinalityType
    <2> QED BY <1>2, <1>3, <2>1
<1>5. ASSUME NEW n \in 1 .. N, Good(n - 1)
      PROVE  Good(n)
    <2>1. PICK below : below = g[n - 1]
        OBVIOUS
    <2>2. PICK level : level = g[n]
        OBVIOUS
    <2>3. level = Step(below)
        BY <1>1, <1>2, <2>1, <2>2
    <2>4. /\ below \subseteq Files
          /\ Step(below) = below \/ Cardinality(below) >= n - 1
          /\ changed \subseteq below
          /\ \A f \in below : f \in changed \/ f \in Importers(below, record)
        BY <1>5, <2>1
    <2>5. level \subseteq Files /\ below \subseteq level
        BY <2>3, <2>4 DEF Importers, Listed
    <2>6. changed \subseteq level /\ \A f \in level : f \in changed \/ f \in Importers(level, record)
        BY <2>3, <2>4, <2>5 DEF Importers
    <2>7. Step(level) = level \/ Cardinality(level) >= n
        <3>1. CASE Step(below) = below
            BY <2>3, <3>1
        <3>2. CASE Step(below) # below
            <4>1. /\ IsFiniteSet(level)
                  /\ Cardinality(below) <= Cardinality(level)
                  /\ Cardinality(below) # Cardinality(level)
                <5>1. IsFiniteSet(level)
                    BY <2>5, FilesFinite, FS_Subset
                <5>2. level # below
                    BY <2>3, <3>2
                <5> QED BY <2>5, <5>1, <5>2, FS_Subset
            <4>2. IsFiniteSet(below)
                BY <2>4, FilesFinite, FS_Subset
            <4>3. Cardinality(below) \in Nat /\ Cardinality(level) \in Nat
                BY <4>1, <4>2, FS_CardinalityType
            <4>4. Cardinality(below) >= n - 1
                BY <2>4, <3>2
            <4> QED BY <1>1, <4>1, <4>3, <4>4
        <3> QED BY <3>1, <3>2
    <2> QED BY <2>2, <2>5, <2>6, <2>7
<1>6. Bad = {}
    <2> SUFFICES ASSUME Bad # {} PROVE FALSE
        OBVIOUS
    <2>1. Bad \subseteq Nat
        BY <1>1
    <2>2. PICK n \in Bad : \A m \in Bad : ~(<<m, n>> \in OpToRel(<, Nat))
        BY <2>1, WFMin, NatLessThanWellFounded
    <2> HIDE DEF Good
    <2>3. n \in 0 .. N /\ ~Good(n)
        BY <2>2
    <2>4. n # 0
        BY <1>4, <2>3
    <2>5. n \in 1 .. N /\ n - 1 \in 0 .. N /\ n - 1 < n /\ n - 1 \in Nat /\ n \in Nat
        BY <1>1, <2>3, <2>4
    <2>6. <<n - 1, n>> \in OpToRel(<, Nat)
        BY <2>5 DEF OpToRel
    <2>7. n - 1 \notin Bad
        BY <2>2, <2>6
    <2> QED BY <1>5, <2>3, <2>5, <2>7
<1>7. Good(N)
    <2>1. N \in 0 .. N
        BY <1>1
    <2> HIDE DEF Good
    <2> QED BY <1>6, <2>1
<1>8. Step(g[N]) = g[N]
    <2>1. CASE Cardinality(g[N]) >= N
        <3>1. g[N] \subseteq Files /\ Cardinality(g[N]) <= Cardinality(Files)
            BY <1>7, FilesFinite, FS_Subset
        <3>2. Cardinality(g[N]) \in Nat
            BY <3>1, FilesFinite, FS_Subset, FS_CardinalityType
        <3>3. Cardinality(g[N]) = Cardinality(Files)
            BY <1>1, <2>1, <3>1, <3>2 DEF N
        <3>4. g[N] = Files
            BY <3>1, <3>3, FilesFinite, FS_Subset
        <3> QED BY <3>4 DEF Importers, Listed
    <2> QED BY <1>7, <2>1
<1> QED BY <1>7, <1>8 DEF g, N

(* What is planned: the files that are not as recorded, and their importers.   *)
LEMMA PlanIsClosed ==
    ASSUME NEW recorded, NEW record, NEW f \in Listed(record)
    PROVE  f \in FilesToScan(recorded, record) <=>
               \/ recorded[f] # record[f]
               \/ Resolved(f, record) \cap FilesToScan(recorded, record) # {}
<1> DEFINE all == (CHOOSE g : IsReached(g, recorded, record))[Cardinality(Files)]
           changed == DirectlyChanged(recorded, record)
<1>1. /\ Importers(all, record) \subseteq all
      /\ changed \subseteq all
      /\ \A h \in all : h \in changed \/ h \in Importers(all, record)
    BY SearchIsClosed
<1>2. FilesToScan(recorded, record) = changed \cup {h \in Listed(record) : h \in all}
    BY PlanUnfolds
<1>3. changed = {h \in Listed(record) : recorded[h] # record[h]}
    BY DEF DirectlyChanged
<1> HIDE DEF all, changed
<1>4. FilesToScan(recorded, record) = all
    BY <1>1, <1>2, <1>3 DEF Importers
<1> QED BY <1>1, <1>3, <1>4 DEF Importers

(* A search that starts inside a set closed under importers stays inside it.   *)
LEMMA SearchStaysInside ==
    ASSUME NEW recorded, NEW record, NEW S,
           DirectlyChanged(recorded, record) \subseteq S, Importers(S, record) \subseteq S
    PROVE  FilesToScan(recorded, record) \subseteq S
<1> DEFINE N == Cardinality(Files)
           g == CHOOSE h : IsReached(h, recorded, record)
           Bad == {n \in 0 .. N : ~(g[n] \subseteq S)}
<1>1. N \in Nat
    BY FilesFinite, FS_CardinalityType
<1>2. g[0] \subseteq S /\ \A n \in 0 .. N : n # 0 => g[n] = g[n - 1] \cup Importers(g[n - 1], record)
    BY ReachedUnfolds
<1> HIDE DEF g, N
<1>3. Bad = {}
    <2> SUFFICES ASSUME Bad # {} PROVE FALSE
        OBVIOUS
    <2>1. Bad \subseteq Nat
        BY <1>1
    <2>2. PICK n \in Bad : \A m \in Bad : ~(<<m, n>> \in OpToRel(<, Nat))
        BY <2>1, WFMin, NatLessThanWellFounded
    <2>3. n \in 0 .. N /\ n # 0
        BY <1>2, <2>2
    <2>4. n - 1 \in 0 .. N /\ <<n - 1, n>> \in OpToRel(<, Nat)
        BY <1>1, <2>3 DEF OpToRel
    <2>5. g[n - 1] \subseteq S
        BY <2>2, <2>4
    <2>6. Importers(g[n - 1], record) \subseteq Importers(S, record)
        BY <2>5 DEF Importers
    <2>7. g[n] \subseteq S
        BY <1>2, <2>3, <2>5, <2>6
    <2> QED BY <2>2, <2>7
<1>4. g[N] \subseteq S
    BY <1>1, <1>3
<1> QED BY <1>4, PlanUnfolds DEF g, N

(* Every plan is the least set of files outside which each file is as recorded *)
(* and imports nothing that is to be scanned.                                  *)
THEOREM PlansFollowImports == Spec => []PlanFollowsImports
<1>1. Init => PlanFollowsImports
    BY DEF Init, PlanFollowsImports
<1>2. ASSUME RunInv, PlanFollowsImports, [Next]_vars
      PROVE  PlanFollowsImports'
    <2>1. CASE Load
        <3>1. info' = disk /\ manifest' = manifest
            BY <2>1 DEF Load, projectVars
        <3>2. manifest # NoManifest => todo' = FilesToScan(manifest, disk)
            BY <2>1 DEF Load
        <3> DEFINE plan == FilesToScan(manifest, disk)
        <3>3. \A f \in Listed(disk) :
                f \in plan <=> manifest[f] # disk[f] \/ Resolved(f, disk) \cap plan # {}
            BY PlanIsClosed
        <3>4. plan \subseteq Listed(disk)
            BY PlanUnfolds DEF DirectlyChanged
        <3>5. ASSUME NEW S \in SUBSET Listed(disk),
                     \A f \in Listed(disk) \ S :
                        manifest[f] = disk[f] /\ Resolved(f, disk) \cap S = {}
              PROVE  plan \subseteq S
            BY <3>5, SearchStaysInside DEF DirectlyChanged, Importers
        <3> HIDE DEF plan
        <3>6. manifest # NoManifest => todo' = plan
            BY <3>2 DEF plan
        <3> QED BY <3>1, <3>3, <3>4, <3>5, <3>6 DEF PlanFollowsImports, CoversChanges
    <2>2. CASE UNCHANGED <<phase, mode, info, todo, manifest>>
        BY <1>2, <2>2 DEF PlanFollowsImports, CoversChanges
    <2>3. CASE phase' # "start" \/ mode' # "incremental"
        BY <2>3 DEF PlanFollowsImports
    <2>4. ASSUME NEW f \in Files, Edit(f) \/ Remove(f)
          PROVE  UNCHANGED <<phase, mode, info, todo, manifest>>
        BY <2>4 DEF Edit, Remove, Changes, scanVars
    <2>5. ASSUME NEW m \in Modes, StartRun(m)
          PROVE  phase' # "start" \/ mode' # "incremental"
        BY <2>5 DEF StartRun
    <2>6. ASSUME LoadFails \/ Crash \/ Report \/ EndSession
          PROVE  phase' # "start"
        BY <2>6 DEF LoadFails, Crash, Report, EndSession, Leave
    <2>7. ASSUME ScanAgain
          PROVE  mode' # "incremental"
        BY <1>2, <2>7 DEF ScanAgain, RunInv, PhaseOK
    <2>8. ASSUME OtherThreads \/ ClockTick \/ (\E m \in Monitors : MonitorThread(m)) \/ UNCHANGED vars
          PROVE  UNCHANGED <<phase, mode, info, todo, manifest>>
        BY <2>8 DEF OtherThreads, ClockTick, MonitorThread, vars, projectVars, scanVars
    <2>9. ASSUME ScanThread, ~Load
          PROVE  phase' # "start"
        <3>1. ASSUME LoopHalts \/ LoopEnds
              PROVE  phase' # "start"
            <4>1. phase' = CASE mode = "library"     -> "between"
                             [] mode = "full"        -> "report"
                             [] mode = "force"       -> "collect"
                             [] mode = "incremental" -> "save"
                BY <3>1 DEF LoopHalts, LoopEnds, EndScan, Goto
            <4>2. mode \in {"full", "incremental", "force", "library"}
                BY <1>2 DEF RunInv, TypeOK, Modes
            <4> QED BY <4>1, <4>2
        <3>2. ASSUME LoadFails \/ Report \/ WalkFails
              PROVE  phase' # "start"
            BY <3>2 DEF LoadFails, Report, WalkFails, Leave
        <3>3. ASSUME BeginScan \/ ResetWatchdog \/ (\E f \in Files : NextEntry(f))
              PROVE  phase' # "start"
            BY <3>3 DEF BeginScan, ResetWatchdog, NextEntry, Goto
        <3>4. ASSUME Read \/ ReadFails \/ AnalyseIgnored \/ AnalyseFails \/ AnalyseEnds \/ TriggerCritical
              PROVE  phase' # "start"
            BY <3>4 DEF Read, ReadFails, AnalyseIgnored, AnalyseFails, AnalyseEnds, TriggerCritical, Goto
        <3>5. ASSUME CollectInfo \/ SaveTruncates \/ SaveWrites
              PROVE  phase' # "start"
            BY <3>5 DEF CollectInfo, SaveTruncates, SaveWrites
        <3> QED BY <2>9, <3>1, <3>2, <3>3, <3>4, <3>5 DEF ScanThread
    <2> QED BY <1>2, <2>1, <2>2, <2>3, <2>4, <2>5, <2>6, <2>7, <2>8, <2>9 DEF Next
<1> QED BY <1>1, <1>2, RunInvHolds, PTL DEF Spec
=============================================================================
