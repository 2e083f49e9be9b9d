SPECIFICATION FairSpec
CONSTANTS
    i1 = i1
    i2 = i2
    s1 = s1
    s2 = s2
    Instances = {i1, i2}
    Subs = {s1, s2}
    Home <- MCHome
    InboxCap = 1
    Page = 2
    MaxBatch = 2
    MaxOps = 3
INVARIANTS
    TypeOK
    NeverAheadOfLog
    SinkSeesContiguous
    TimerRunsWhileHolding
PROPERTIES
    ImplementsOrderedStream
    EveryOpOffered
