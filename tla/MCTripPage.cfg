SPECIFICATION FairPageSpec
CONSTANTS
    s1 = s1
    m1 = m1
    Subs = {s1}
    Others = {m1}
    NoSub = NoSub
    SendBuf = 1
    GateCap = 1
    Page = 1
    MaxResync = 1
    MaxOps = 1
    MaxDrops = 1
    MaxAsks = 1
INVARIANT PageMissesOnlyRaces
PROPERTY SubscriberCatchesUp
