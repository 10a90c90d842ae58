SPECIFICATION FairSpec
CONSTANTS
    Calls <- MCCalls
    RunIds = {"r1", "r2"}
    Services <- MCServices
    MaxFaults = 3
INVARIANTS
    OneWriterPerRun
    ReproductionIsTrue
    CallerIsToldTheTruth
    NothingIsLeftBehind
PROPERTY
    WorktreesAreRemovedInTheEnd
CHECK_DEADLOCK FALSE
