SPECIFICATION FairSpec
CONSTANTS
    a = a
    b = b
    c = c
    d = d
    e = e
    Cells = {a, b, c, d, e}
    Pcis = {0, 3, 6, 7}
    Nbrs <- ChainNbrs
    RealNbrs <- ChainReal
    Freq <- TwoCarriers
    NoFreq = NoFreq
    Weight <- ChainWeight
    MaxWeight = 2
    Order <- AsListed
    Moduli <- NrModuli
    PageSize = 3
    ModPriority <- NrPriority
    Allowed <- FullPool
    MaxPasses = 3
    PassPermille = 500
    RunPermille = 650
    MaxAbsolute = 50
    MinGain = 1
    Override = None
    None = None
    InitialPcis <- AnyStart
INVARIANTS
    WithinBudget
    PassChangesApart
    ListTellsAll
    UsageExact
    NeverCostsMore
    ConvergedIsStable
    ConvergedIsUnconfused
    ValidatedAsRun
PROPERTIES
    Terminates
CHECK_DEADLOCK FALSE
