SPECIFICATION Spec
CONSTANTS
    a = a
    b = b
    dir1 = dir1
    default = default
    Tasks <- MCTasks
    NoTask = NoTask
    Directories <- MCDirectories
    Default = default
INVARIANTS
    ResultIsOfTheTask
    ButtonsComeBack
    SettledSessionAgrees
CHECK_DEADLOCK TRUE
