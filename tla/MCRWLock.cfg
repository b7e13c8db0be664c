CONSTANTS
    t1 = t1
    t2 = t2
    t3 = t3
    t4 = t4
    NoThread = NoThread
    Threads <- FourThreads
SPECIFICATION FairSpec
INVARIANTS Accounting NoStrandedWaiter NoAbort
PROPERTIES Served ImplementsSharedExclusive
CHECK_DEADLOCK FALSE
