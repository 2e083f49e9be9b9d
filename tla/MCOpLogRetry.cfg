SPECIFICATION FairSpec
CONSTANTS
    p1 = p1
    p2 = p2
    c1 = c1
    c2 = c2
    c3 = c3
    e1 = e1
    Procs = {p1, p2}
    Intents = {c1, c2, c3}
    Entities = {e1}
    IntentKind <- MCKind
    IntentTarget <- MCTarget
    NoCid = NoCid
    NoProc = NoProc
    MaxOpSeq = 4
PROPERTY RetryReceivesOriginal
CHECK_DEADLOCK FALSE
