SPECIFICATION Spec
CONSTANTS
    Cells = {c1}
    Pcis = {p1, p2}
    Pool = {}
    Threads = {t1, t2}
    Slots = {s1, s2}
    Window = 1
    Absent = Absent
    None = None
INVARIANTS
    PendingShown
