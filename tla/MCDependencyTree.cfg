SPECIFICATION ParseSpec
CONSTANTS
    jar = jar
    tests = tests
    other = other
    None = None
    Keys <- MCKeys
    TargetKeys <- MCTargetKeys
    CanonicalKey = jar
    Versions = {1, 2}
    MaxDepth = 3
    MaxLines = 4
INVARIANTS
    ParentsComeFirst
    PathsAreComplete
    ParentsAreTheTreesOwn
CHECK_DEADLOCK FALSE
