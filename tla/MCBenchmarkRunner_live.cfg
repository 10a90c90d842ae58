SPECIFICATION FairSpec
CONSTANTS
    Cases <- ThreeCases
    Strategies <- TwoStrategies
    Trials = 1
    Configs = {"c1"}
    Reruns = {FALSE}
    Results <- MCResults
    Faults = {"crash", "torn"}
INVARIANT
    ComparisonIsBalanced
PROPERTY
    InterruptedRunCompletes
