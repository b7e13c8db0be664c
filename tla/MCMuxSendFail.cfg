SPECIFICATION Spec
CONSTANTS
    ra = ra
    rb = rb
    rc = rc
    nil = nil
    Rpcs <- ThreeRpcs
    MayAsync <- NoAsync
    Watched <- One
    NTags = 4
    SendMayFail <- AnySend
    MaxStray = 0
SYMMETRY SyncSymmetry
INVARIANTS MuxerAlive
