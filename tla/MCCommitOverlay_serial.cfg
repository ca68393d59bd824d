SPECIFICATION FairSpec
CONSTANTS
    Cells = {c1}
    Pcis = {p1, p2}
    Pool = {}
    Threads = {t1}
    Slots = {s1, s2}
    Window = 1
    Absent = Absent
    None = None
INVARIANTS
    OverlayMatchesDevice
    PendingShown
PROPERTIES
    AlarmIsTrue
    CommitResolved
