SPECIFICATION Spec
CONSTANTS
    Trials <- MCTrials
    Budget <- MCBudget
    Providers <- MCProviders
    Diagnoses <- MCDiagnoses
    MaxResumes = 1
INVARIANTS
    EachTrialCountsOnce
    BreakerFollowsLastFailure
    PairsAgreeWithTotals
CHECK_DEADLOCK FALSE
