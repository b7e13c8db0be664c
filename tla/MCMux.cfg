SPECIFICATION FairSpec
CONSTANTS
    ra = ra
    rb = rb
    rc = rc
    nil = nil
    Rpcs <- ThreeRpcs
    MayAsync <- OneAsync
    Watched <- One
    NTags = 2
    SendMayFail <- AsyncSend
    MaxStray = 1
INVARIANTS TagsExact OwnReply NoLostTag MuxerAlive
PROPERTY Returns
