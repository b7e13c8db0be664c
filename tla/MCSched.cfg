CONSTANTS
    t1 = t1
    t2 = t2
    t3 = t3
    p1 = p1
    p2 = p2
    nil = nil
    Procs <- TwoProcs
    Threads <- ThreeThreads
    MainProc = p1
    MainThread = t1
    Pinners <- ThreeThreads
SPECIFICATION FairSpec
INVARIANTS OneRunner NoLostWakeup OnePlace Accounting
PROPERTIES ImplementsCoroutines ReadyRuns
CHECK_DEADLOCK FALSE
