CONSTANTS
    a = a
    b = b
    c = c
    Files <- ThreeFiles
    Imports <- ThreeImports
    Critical <- CriticalContent
    Unparsable <- UnparsableContent
    Ignored <- IgnoredContent
    NoManifest = NoManifest
    Truncated = Truncated
    MaxVersion = 2
    MaxEdits = 0
    MaxRuns = 1
    Monitors = {m1, m2}
SPECIFICATION Spec
INVARIANT RecordedFilesWereScanned
CHECK_DEADLOCK FALSE
