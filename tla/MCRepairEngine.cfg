SPECIFICATION FairSpec
CONSTANTS
    None = None
    Files <- MCFiles
    Versions <- MCVersions
    Keys <- MCKeys
    TargetKeys <- MCTargetKeys
    TargetVersion = "new"
    CausalExpected = TRUE
    CausalKey = "causal:jar"
    CausalVersion = "new"
    MaxRepairAttempts = 3
    Patches <- MCPatches
    Trees <- MCTrees
    Faults <- AllFaults
INVARIANTS
    TypeOK
    VerdictIsEarned
    ReportedVerificationIsCurrent
    ArtifactsAgree
    WorktreesAreTheAttemptsOwn
    RetriesFollowFromTheLast
PROPERTIES
    ResultOrError
    ImplementsContract
