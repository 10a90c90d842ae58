SPECIFICATION Spec
CONSTANTS
    None = None
    Files <- MCFiles
    Versions <- MCVersions
    Keys <- MCKeys
    TargetKeys <- MCTargetKeys
    TargetVersion = "new"
    CausalExpected = TRUE
    CausalKey = "causal:jar"
    CausalVersion = "new"
    MaxRepairAttempts = 2
    Patches <- MCFewPatches
    Trees <- MCFewTrees
    Faults <- CleanupFault
INVARIANT
    VerifiedIsExported
