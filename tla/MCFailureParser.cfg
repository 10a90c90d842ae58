SPECIFICATION FailureSpec
CONSTANTS
    SourceFiles <- MCSourceFiles
    Classes <- MCClasses
    Words <- MCWords
    Streams <- MCStreams
    Workspaces <- MCWorkspaces
    LineCount = 2
    None = None
    MaxDiagnosticLines = 3
    MaxTestBlockLines = 5
    MaxStackFrames = 2
INVARIANTS
    FailuresAreNotMixedUp
    EveryReportIsFound
    PlacesAreSound
CHECK_DEADLOCK FALSE
