CONSTANTS
    t1 = t1
    t2 = t2
    t3 = t3
    ok = ok
    err = err
    nil = nil
    Threads = {t1, t2, t3}
    Results = {ok, err}
SPECIFICATION FairSpec
INVARIANTS OneCaller OwnResult
PROPERTY Returns
CHECK_DEADLOCK FALSE
