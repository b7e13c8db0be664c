CONSTANTS
    t1 = t1
    t2 = t2
    t3 = t3
    t4 = t4
    nil = nil
    Threads <- FourThreads
SPECIFICATION FairSpec
INVARIANTS OwnerStable NoStrandedWaiter
PROPERTIES Served ImplementsMonitor
CHECK_DEADLOCK FALSE
