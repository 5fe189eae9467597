------------------------------- MODULE ScanRun -------------------------------
(* Runs of the scanner over one project: run_security_scan (src/src/main.rs)   *)
(* with SecurityScanner::scan_directory, scan_directory_incremental and        *)
(* scan_file (src/src/scanners.rs), the manifest on disk, the emergency stop   *)
(* and the watchdog.  The thread that scans, the listener, the signal thread   *)
(* and the monitors interleave; files are edited at any moment; the process    *)
(* may be killed at any moment and the next run starts from the disk.          *)
EXTENDS ScanManifest, ScanWatchdog

CONSTANTS
    Critical,     \* <<f, v>>: version v of f has a critical vulnerability
    Unparsable,   \* <<f, v>>: syn::parse_file fails on version v of f
    Ignored,      \* <<f, v>>: version v of f matches an ignore pattern
    MaxEdits,     \* bound: edits of the project
    MaxRuns       \* bound: processes started

ASSUME ScanBounds == MaxEdits \in Nat /\ MaxRuns \in Nat

ASSUME ContentsType == Critical \cup Unparsable \cup Ignored \subseteq Files \X Versions

VARIABLES
    disk,        \* version of each file on disk
    manifest,    \* .stellar-scanner/manifest.json
    phase,       \* where the scanning thread stands
    mode,        \* how this process was started
    info,        \* file_info of this run
    todo,        \* entries the scan loop has not taken yet
    current,     \* <<file, version read>> the loop is at, or NoEntry
    seen,        \* history: newest version of each file that a run with a manifest
                 \* has analysed in full
    excused,     \* history: <<f, v>> recorded although a known gap hid v of f
    left,        \* history: files this scan was halted before, or failed on
    touched,     \* history: files edited since a forced run started
    late,        \* history: files read after the stop flag was set
    edits, runs  \* counters of the bounds

vars == <<disk, manifest, phase, mode, info, todo, current, seen,
          excused, left, touched, late, edits, runs, stopVars, watchdogVars>>

scanVars == <<mode, info, todo, current>>
historyVars == <<seen, excused, left, touched, late>>
projectVars == <<disk, manifest, edits, runs>>

NoEntry == <<>>

\* full: neither flag; force: --force-full; library: a scanner object that
\* scans several directories, as the tests and other crates use it.
Modes == {"full", "incremental", "force", "library"}

Phases == {"idle", "load", "start", "reset", "loop", "read", "analyse", "trigger",
           "collect", "save", "saving", "report", "between"}

Init ==
    /\ disk = [f \in Files |-> 1]
    \* never scanned; scanned in full; killed while it saved the manifest
    /\ \/ manifest = NoManifest /\ seen = NoFiles
       \/ manifest \in {disk, Truncated} /\ seen = disk
    /\ phase = "idle"
    /\ mode = "full"
    /\ info = NoFiles
    /\ todo = {}
    /\ current = NoEntry
    /\ excused = {}
    /\ left = {}
    /\ touched = {}
    /\ late = 0
    /\ edits = 0
    /\ runs = 0
    /\ StopInit
    /\ WatchdogInit

-----------------------------------------------------------------------------
(* The project directory *)

Changes(f, v) ==
    /\ edits < MaxEdits
    /\ disk[f] /= Absent
    /\ disk' = [disk EXCEPT ![f] = v]
    /\ touched' = IF mode = "force" THEN touched \cup {f} ELSE touched
    /\ edits' = edits + 1
    /\ UNCHANGED <<manifest, phase, scanVars, seen, excused, left, late, runs,
                   stopVars, watchdogVars>>

Edit(f) == disk[f] < MaxVersion /\ Changes(f, disk[f] + 1)

Remove(f) == Changes(f, Absent)

-----------------------------------------------------------------------------
(* A process: start, the three ways to its scan, and its end *)

StartRun(m) ==
    /\ phase = "idle"
    /\ runs < MaxRuns
    /\ runs' = runs + 1
    /\ mode' = m
    /\ phase' = IF m = "incremental" THEN "load" ELSE "start"
    \* force-full deletes the manifest and ignores a failure to
    /\ \/ manifest' = manifest
       \/ m = "force" /\ manifest' = NoManifest
    /\ todo' = IF m = "incremental" THEN {} ELSE Listed(disk)
    /\ UNCHANGED <<disk, edits, info, current, historyVars,
                   stopVars, watchdogVars>>

\* Everything in the memory of the process is gone.
Leave ==
    /\ phase' = "idle"
    /\ mode' = "full"
    /\ info' = NoFiles
    /\ todo' = {}
    /\ current' = NoEntry
    /\ left' = {}
    /\ touched' = {}
    /\ late' = 0
    /\ ForgetStop
    /\ ForgetWatchdog
    /\ UNCHANGED <<projectVars, seen, excused>>

\* SIGKILL, power loss: at any step.
Crash == phase /= "idle" /\ Leave

\* load fails on a manifest it cannot parse, and `?` ends the run.
LoadFails ==
    /\ phase = "load"
    /\ manifest = Truncated
    /\ Leave

\* load, collect_file_info and compute_affected_files
Load ==
    /\ phase = "load"
    /\ manifest /= Truncated
    /\ info' = disk
    /\ todo' = IF manifest = NoManifest THEN Listed(disk)
                                        ELSE FilesToScan(manifest, disk)
    /\ phase' = "start"
    /\ UNCHANGED <<projectVars, mode, current, historyVars,
                   stopVars, watchdogVars>>

\* A step of the scanning thread that moves it on within a scan, and the files
\* the scan leaves out in that step.
Goto(from, to) ==
    /\ phase = from
    /\ phase' = to
    /\ UNCHANGED <<projectVars, mode, info, excused, touched>>

KeepsManifest == mode \in {"incremental", "force"}

Leaves(fs) == left' = IF KeepsManifest THEN left \cup fs ELSE left

\* The loop is done with the entry it was at.
Done == current' = NoEntry

BeginScan ==
    /\ Goto("start", "reset")
    /\ StartMonitoring
    /\ UNCHANGED <<todo, current, seen, left, late, silent, timedOut, stopVars>>

ResetWatchdog ==
    /\ Goto("reset", "loop")
    /\ Heartbeat
    /\ ResetTimedOut
    /\ UNCHANGED <<todo, current, seen, left, late, monitorActive, monitor, stopVars>>

-----------------------------------------------------------------------------
(* The scan loop and scan_file *)

\* stop_monitoring, and on to what the mode does with the results
EndScan ==
    /\ Goto("loop", CASE mode = "library"     -> "between"
                      [] mode = "full"        -> "report"
                      [] mode = "force"       -> "collect"
                      [] mode = "incremental" -> "save")
    /\ StopMonitoring
    /\ todo' = {}
    /\ UNCHANGED <<current, seen, late, silent, timedOut, monitor, stopVars>>

\* break: what is left of the directory stays unscanned.  scan_file polls once
\* more before it starts; it then answers with an empty result, and the loop
\* breaks at its next poll.
LoopHalts ==
    /\ todo /= {}
    /\ Halted
    /\ Leaves(todo)
    /\ EndScan

LoopEnds ==
    /\ todo = {}
    /\ UNCHANGED left
    /\ EndScan

\* The walk reports an entry it cannot read, and `?` leaves scan_directory with
\* the monitor still active; in a program of its own the run ends there.  An
\* incremental run walks the directory when it found no manifest.
WalkFails ==
    /\ phase = "loop"
    /\ mode = "incremental" => manifest = NoManifest
    /\ ~Halted
    /\ \/ /\ mode = "library"
          /\ phase' = "between"
          /\ todo' = {}
          /\ UNCHANGED <<projectVars, mode, info, current, historyVars,
                         watchdogVars, stopVars>>
       \/ /\ mode /= "library"
          /\ Leave

\* The loop takes an entry, and scan_file starts on it.
NextEntry(f) ==
    /\ Goto("loop", "read")
    /\ f \in todo
    /\ ~Halted
    /\ Heartbeat
    /\ todo' = todo \ {f}
    /\ current' = <<f, Absent>>
    /\ UNCHANGED <<seen, left, late, timedOut, monitorActive, monitor, stopVars>>

Read ==
    /\ Goto("read", "analyse")
    /\ disk[current[1]] /= Absent
    /\ current' = <<current[1], disk[current[1]]>>
    /\ late' = IF isStopped THEN late + 1 ELSE late
    /\ UNCHANGED <<todo, seen, left, watchdogVars, stopVars>>

\* The file is gone, or cannot be read: the loop drops the error.
ReadFails ==
    /\ Goto("read", "loop")
    /\ disk[current[1]] = Absent
    /\ Done
    /\ Leaves({current[1]})
    /\ UNCHANGED <<todo, seen, late, watchdogVars, stopVars>>

\* parse_file fails, `?` drops the file, and the loop goes on.
AnalyseFails ==
    /\ Goto("analyse", "loop")
    /\ current \in Unparsable \ Ignored
    /\ Done
    /\ Leaves({current[1]})
    /\ UNCHANGED <<todo, seen, late, watchdogVars, stopVars>>

AnalysedInFull ==
    seen' = [seen EXCEPT ![current[1]] =
                IF KeepsManifest /\ @ < current[2] THEN current[2] ELSE @]

\* A file to ignore ends with a result and without the second heartbeat.
AnalyseIgnored ==
    /\ Goto("analyse", "loop")
    /\ current \in Ignored
    /\ AnalysedInFull
    /\ Done
    /\ UNCHANGED <<todo, left, late, watchdogVars, stopVars>>

\* The patterns, the AST, the second heartbeat.  When a poll between two patterns
\* finds the scan halted, the rest of the patterns is skipped, and a critical
\* vulnerability may or may not have been found before.
AnalyseEnds ==
    /\ \/ current \in Critical /\ Goto("analyse", "trigger") /\ UNCHANGED current
       \/ Goto("analyse", "loop") /\ Done
    /\ current \notin Unparsable \cup Ignored
    /\ \/ AnalysedInFull /\ (current \in Critical <=> phase' = "trigger") /\ UNCHANGED left
       \/ Halted /\ Leaves({current[1]}) /\ UNCHANGED seen
    /\ Heartbeat
    /\ UNCHANGED <<todo, late, timedOut, monitorActive, monitor, stopVars>>

\* stop_on_critical_vulnerability.  When the send fails, `?` drops the result of
\* the file; the loop goes on either way.
TriggerCritical ==
    /\ Goto("trigger", "loop")
    /\ TriggerStop
    /\ Done
    /\ UNCHANGED <<todo, seen, left, late, watchdogVars, isStopped, listener, signals>>

-----------------------------------------------------------------------------
(* After the scan *)

\* Mutant: the files are taken from the manifest that is there.
CollectRecorded ==
    /\ phase = "collect"
    /\ phase' = "save"
    /\ info' = manifest
    /\ UNCHANGED <<projectVars, mode, todo, current, historyVars,
                   watchdogVars, stopVars>>

\* A forced run looks at the files only now.
CollectInfo ==
    /\ phase = "collect"
    /\ phase' = "save"
    /\ info' = disk
    /\ UNCHANGED <<projectVars, mode, todo, current, historyVars,
                   watchdogVars, stopVars>>

\* What update starts from: the manifest loaded, or a new one.
Base == IF mode = "force" \/ manifest = NoManifest THEN NoFiles ELSE manifest

\* What the run records although it did not analyse it, for a cause in the code:
\* the scan was halted or failed on the file, or a forced run, which collects the
\* files after its scan, records an edit it has not seen.
Gaps ==
    {<<f, info[f]>> : f \in Listed(info) \cap (left \cup touched)}

\* Mutant: the hashes are taken again when the manifest is saved.
SaveHashesAgain ==
    /\ phase = "save"
    /\ phase' = "saving"
    /\ manifest' = Truncated
    /\ info' = UpdatedManifest(Base, disk)
    /\ excused' = excused \cup Gaps
    /\ UNCHANGED <<disk, edits, runs, mode, todo, current, seen, left,
                   touched, late, watchdogVars, stopVars>>

\* fs::write: open with truncate ...
SaveTruncates ==
    /\ phase = "save"
    /\ phase' = "saving"
    /\ manifest' = Truncated
    /\ info' = UpdatedManifest(Base, info)
    /\ excused' = excused \cup Gaps
    /\ UNCHANGED <<disk, edits, runs, mode, todo, current, seen, left,
                   touched, late, watchdogVars, stopVars>>

\* ... and write.
SaveWrites ==
    /\ phase = "saving"
    /\ phase' = "report"
    /\ manifest' = info
    /\ UNCHANGED <<disk, edits, runs, scanVars, historyVars,
                   watchdogVars, stopVars>>

\* The run prints its report, which says that its results are partial when the
\* stop flag is set, and ends.
Report ==
    /\ phase = "report"
    /\ Leave

\* The next scan of a scanner object.
ScanAgain ==
    /\ phase = "between"
    /\ Unborn /= {}
    /\ phase' = "start"
    /\ todo' = Listed(disk)
    /\ UNCHANGED <<projectVars, mode, info, current, historyVars,
                   watchdogVars, stopVars>>

EndSession == phase = "between" /\ Leave

-----------------------------------------------------------------------------
ScanThread ==
    \/ Load \/ LoadFails \/ BeginScan \/ ResetWatchdog
    \/ LoopHalts \/ LoopEnds \/ WalkFails \/ (\E f \in Files : NextEntry(f))
    \/ Read \/ ReadFails
    \/ AnalyseIgnored \/ AnalyseFails \/ AnalyseEnds
    \/ TriggerCritical \/ CollectInfo \/ SaveTruncates \/ SaveWrites \/ Report

OtherThreads ==
    /\ phase /= "idle"
    /\ SignalArrives \/ ListenerStep
    /\ UNCHANGED <<projectVars, phase, scanVars, historyVars, watchdogVars>>

MonitorThread(m) ==
    /\ phase /= "idle"
    /\ MonitorStep(m)
    /\ UNCHANGED <<projectVars, phase, scanVars, historyVars>>

ClockTick ==
    /\ phase /= "idle"
    /\ TimePasses
    /\ UNCHANGED <<projectVars, phase, scanVars, historyVars>>

Next ==
    \/ \E f \in Files : Edit(f) \/ Remove(f)
    \/ \E m \in Modes : StartRun(m)
    \/ ScanThread \/ ScanAgain \/ EndSession \/ Crash
    \/ OtherThreads \/ ClockTick
    \/ \E m \in Monitors : MonitorThread(m)

Spec == Init /\ [][Next]_vars

\* Threads that are not blocked run and time goes on.  No fairness for the
\* scanning thread, which may be stuck in a file for ever, nor for anything the
\* user does.
FairSpec ==
    /\ Spec
    /\ WF_vars(phase /= "idle" /\ ListenerStep /\ OtherThreads)
    /\ WF_vars(ClockTick)
    /\ \A m \in Monitors : WF_vars(MonitorThread(m))

-----------------------------------------------------------------------------
(* Properties *)

\* Every variable keeps to its type.
TypeOK ==
    /\ StopTypeOK
    /\ WatchdogTypeOK
    /\ disk \in FileInfos
    /\ manifest \in Manifests
    /\ phase \in Phases
    /\ mode \in Modes
    /\ info \in FileInfos
    /\ todo \subseteq Files
    /\ current \in {NoEntry} \cup Files \X (Versions \cup {Absent})
    /\ seen \in FileInfos
    /\ excused \subseteq Files \X Versions
    /\ left \cup touched \subseteq Files
    /\ late \in Nat
    /\ edits \in 0 .. MaxEdits
    /\ runs \in 0 .. MaxRuns

\* Outside S no file differs from its record or imports a file of S.
CoversChanges(S) ==
    \A f \in Listed(info) \ S : manifest[f] = info[f] /\ Resolved(f, info) \cap S = {}

\* The plan of an incremental run skips a file only if its hash is the recorded
\* one and no file it imports, directly or not, is to be scanned; and it scans
\* nothing without need, in cycles of imports either: it is the least such set
\* (compute_affected_files).
PlanFollowsImports ==
    phase = "start" /\ mode = "incremental" /\ manifest /= NoManifest =>
        /\ todo \subseteq Listed(info) /\ CoversChanges(todo)
        /\ \A S \in SUBSET Listed(info) : CoversChanges(S) => todo \subseteq S

\* Whatever is edited, killed or stopped and whenever, the manifest never says
\* of a file a version newer than the newest one analysed in full, unless a run
\* was halted before the file, failed on it, or was forced while it was edited:
\* an incremental run misses no edit that raced it (run_security_scan, update).
RecordedWasAnalysed ==
    manifest \notin {NoManifest, Truncated} =>
        \A f \in Listed(manifest) :
            manifest[f] <= seen[f] \/ <<f, manifest[f]>> \in excused

\* The claim of the comment on update, without exceptions: what the manifest
\* records of a file is what was scanned or what was unchanged.
RecordedFilesWereScanned ==
    manifest \notin {NoManifest, Truncated} =>
        \A f \in Listed(manifest) : manifest[f] <= seen[f]

\* After the stop flag is set at most one more file is read: the one whose checks
\* had passed (the polls of scan_directory and scan_file).
AtMostOneFileAfterStop == late <= 1

\* A scan never hangs in a file unnoticed: it leaves the file, or the watchdog
\* sees the silence and the stop flag gets set, whatever earlier scans of the same
\* scanner object, walk errors and monitors still asleep have left behind.
StuckScanIsStopped == phase = "analyse" ~> (phase /= "analyse" \/ isStopped)
=============================================================================
