SPECIFICATION Spec
CONSTANTS
    fa = fa
    fb = fb
    sa = sa
    ma = ma
    mb = mb
    pa = pa
    pb = pb
    ta = ta
    tb = tb
    nil = nil
    Fids <- TwoFids
    Senders <- OneSender
    Msgs <- TwoMsgs
    Size <- ShortLong
    Tags <- TwoTags
    Counts <- OneOrTwo
    Procs <- TwoProcs
    MaxPipe = 1
    MaxReads = 2
SYMMETRY Symmetry
INVARIANTS Stream NoStrandedRead
