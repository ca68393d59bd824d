SPECIFICATION FairSpec
CONSTANTS
    Callers = {a, b, c}
    MaxRequests = 2
    MinRequests = 3
    RatioNum = 3
    RatioDen = 5
    Interval = 2
    Timeout = 2
    MaxCount = 6
INVARIANTS
    AccountedFor
    ProbesBounded
PROPERTIES
    ClosesOnProof
    HalfOpenDecides
    OpenProbes
