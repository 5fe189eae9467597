CONSTANTS
    a = a
    b = b
    c = c
    Files <- ThreeFiles
    Imports <- ThreeImports
    Critical <- CriticalContent
    Unparsable <- UnparsableContent
    Ignored <- IgnoredContent
    NoManifest = NoManifest
    Truncated = Truncated
    MaxVersion = 2
    MaxEdits = 1
    MaxRuns = 1
    Monitors = {m1, m2}
SPECIFICATION FairSpec
INVARIANTS
    TypeOK
    PlanFollowsImports
    RecordedWasAnalysed
    AtMostOneFileAfterStop
PROPERTY StuckScanIsStopped
CHECK_DEADLOCK FALSE
