CONSTANTS
    t1 = t1
    t2 = t2
    Threads = {t1, t2}
    Terminal = 5
    FileUnits = {10}
    Opens <- MCOpens
    MaxOps = 3
    MaxConns = 3
    MaxItems = 2
    MaxDepth = 2
    None = None
SPECIFICATION Spec
INVARIANTS NoOrphans StatementsWhole ExitFlushes ScratchRemoved
PROPERTY OthersProceed
