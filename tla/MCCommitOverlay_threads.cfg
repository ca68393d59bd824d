SPECIFICATION Spec
CONSTANTS
    Cells = {c1}
    Pcis = {p1, p2}
    Pool = {p2}
    Threads = {t1, t2}
    Slots = {s1, s2}
    Window = 0
    Absent = Absent
    None = None
INVARIANTS
    DisplayTraceable
    OverlayWasAcked
SYMMETRY Symmetry
