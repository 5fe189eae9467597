---------------------------- MODULE ScanManifest -----------------------------
(* The incremental-scan manifest (src/src/incremental_scan.rs): what a run      *)
(* records about every file, and the plan it computes from the record and the  *)
(* files on disk.  A file's content is a version number: two contents have the *)
(* same SHA-256 hash exactly when they are the same version.                   *)
EXTENDS Naturals, FiniteSets

CONSTANTS
    Files,        \* paths of the .rs files, relative to the project
    MaxVersion,   \* bound: versions a file may go through
    Imports,      \* Imports[f]: what the text of f imports
    NoManifest,   \* there is no manifest.json
    Truncated     \* fs::write has truncated it: serde cannot parse it

Absent == 0

Versions == 1 .. MaxVersion

\* A path in a use or mod line names a module, or an item inside a module.
ImportForms == {"module", "item"}

ASSUME FilesFinite == IsFiniteSet(Files)

ASSUME VersionsType == MaxVersion \in Nat \ {0}

ASSUME ImportsType == Imports \in [Files -> SUBSET (Files \X ImportForms)]

\* What collect_file_info finds, and what a manifest holds, per file.
FileInfos == [Files -> Versions \cup {Absent}]

NoFiles == [f \in Files |-> Absent]

Listed(info) == {f \in Files : info[f] /= Absent}

ASSUME ManifestMarks == {NoManifest, Truncated} \cap FileInfos = {}

Manifests == FileInfos \cup {NoManifest, Truncated}

\* resolve_module_to_file: src/<path>.rs or src/<path>/mod.rs, for the whole
\* path as written, so that a path that ends in an item names no file.
Resolved(f, info) == {g \in Listed(info) : <<g, "module">> \in Imports[f]}

DirectlyChanged(recorded, info) == {f \in Listed(info) : recorded[f] /= info[f]}

\* Mutant: only the files that import a changed file themselves.
ChangedAndImporters(recorded, info) ==
    LET changed == DirectlyChanged(recorded, info)
    IN  changed \cup {f \in Listed(info) : Resolved(f, info) \cap changed /= {}}

\* compute_affected_files: the changed files and, breadth-first from them, the
\* files that import one already reached.
FilesToScan(recorded, info) ==
    LET changed == DirectlyChanged(recorded, info)
        reached[n \in 0 .. Cardinality(Files)] ==
            IF n = 0
            THEN changed
            ELSE reached[n - 1] \cup
                 {f \in Listed(info) : Resolved(f, info) \cap reached[n - 1] /= {}}
    IN  changed \cup {f \in Listed(info) : f \in reached[Cardinality(Files)]}

\* update: every file of the collected info is recorded with its current hash,
\* scanned or not; entries of files that are gone stay.
UpdatedManifest(recorded, info) ==
    [f \in Files |-> IF info[f] = Absent THEN recorded[f] ELSE info[f]]
=============================================================================
