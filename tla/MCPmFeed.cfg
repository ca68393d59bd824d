SPECIFICATION FairSpec
CONSTANTS
    Nodes = {a, b}
    Threads = {t, u}
    MaxFiles = 2
    NoNet = NoNet
PROPERTIES
    NeverBackwards
    LockComesBack
    EveryFileShown
CHECK_DEADLOCK FALSE
