SPECIFICATION Spec
CONSTANTS
    c1 = c1
    c2 = c2
    c3 = c3
    Cases <- MCCases
    Contents <- MCContents
    Lists <- MCLists
    Configs <- MCConfigs
    Direct = 1
    Transitive = 1
    MaxEdits = 2
INVARIANTS
    ReportIsOfLockedDataset
    
