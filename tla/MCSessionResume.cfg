SPECIFICATION FairSpec
CONSTANTS
    s1 = s1
    s2 = s2
    m1 = m1
    Subs = {s1, s2}
    Others = {m1}
    NoSub = NoSub
    SendBuf = 2
    GateCap = 2
    Page = 1
    MaxResync = 2
    MaxOps = 2
    MaxDrops = 1
    MaxAsks = 1
PROPERTY ResumeLosesNothing
