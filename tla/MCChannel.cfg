CONSTANTS
    t1 = t1
    t2 = t2
    t3 = t3
    c0 = c0
    c1 = c1
    v1 = v1
    v2 = v2
    nil = nil
    NBuf = 2
    Threads <- ThreeThreads
    Channels <- BothChannels
    Values = {v1, v2}
    bufsize <- BufSizes
    Alts <- SomeAlts
SPECIFICATION Spec
INVARIANTS ArraysExact NoMissedMatch
PROPERTY ImplementsAlternation
SYMMETRY Symmetry
CHECK_DEADLOCK FALSE
