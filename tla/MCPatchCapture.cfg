SPECIFICATION Spec
CONSTANTS
    Files <- Paths
    JavaFiles <- PathsJava
    TestFiles <- PathsTest
    Manifests <- PathsManifest
    Generated <- PathsGenerated
    Ignored <- PathsIgnored
    Evidenced <- PathsEvidenced
    Contents <- MCContents
    Disables <- MCMarkers
    Skips <- MCMarkers
    BroadLimit = 10
    MaxUntracked = 1
    MaxEdits = 3
INVARIANTS
    AcceptedPatchStaysInScope
    PatchIsExactOutsideTarget
