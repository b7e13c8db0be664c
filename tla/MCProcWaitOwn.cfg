CONSTANTS
    t1 = t1
    t2 = t2
    p1 = p1
    p2 = p2
    p3 = p3
    nil = nil
    Threads = {t1, t2}
    Pids = {p1, p2, p3}
    WaitchanSize = 2
SPECIFICATION Spec
INVARIANT OwnMessage
CHECK_DEADLOCK FALSE
