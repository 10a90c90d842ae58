SPECIFICATION Spec
CONSTANTS
    Cases <- TwoCases
    Strategies <- OneStrategy
    Trials = 2
    Configs = {"c1", "c2"}
    Reruns = {FALSE, TRUE}
    Results <- MCOutage
    Faults = {"crash"}
INVARIANTS
    PublishedReportIsOnDisk
    NoMixedConfig
PROPERTY
    ImplementsLedger
