SPECIFICATION Spec
CONSTANTS
    target = target
    tests = tests
    sources = sources
    library = library
    C = C
    D = D
    P = P
    javaxT = javaxT
    jakartaT = jakartaT
    None = None
    Keys <- MCKeys
    TargetKeys <- MCTargetKeys
    CanonicalKey = target
    Versions = {1, 2}
    Classes <- MCClasses
    Packages <- MCPackages
    Under <- MCUnder
    Directly <- MCDirectly
    Members <- MCMembers
    SimpleName <- MCSimpleName
    Sources = {1, 2, 3, 4}
    SourceKind <- MCSourceKind
    ClassOrder <- MCClassOrder
    MaxAllowedFiles = 2
    Worlds <- MCWorlds
INVARIANTS
    SupportedDiagnosisIsTrue
    LeadIsBest
    SupportedChainHolds
    ReadyPlanAllowsTheFailingFile
    AnalysisLookedEverywhere
CHECK_DEADLOCK FALSE
