\* Two members, a trip with one slot and one option, three operations.
SPECIFICATION Spec
CONSTANTS
    Nil = Nil
    s1 = s1
    o1 = o1
    p1 = p1
    Days = {d1}
    Slots = {s1, s2}
    Options = {o1}
    Comments = {c1}
    Entries = {b1}
    Users = {u1, u2}
    Times = {1, 2}
    Dates = {1}
    Statuses = {"covered"}
    Coordinates = {3, 4}
    Amounts = {1, 2}
    Keys = {p1, p2}
    SeedTables <- MCSeedTables
    MaxSeq = 3
    MaxTables = 2
    MaxBehind = 0
SYMMETRY Symmetry
CHECK_DEADLOCK FALSE
INVARIANTS
    TypeOK
    FoldMatchesTables
    TimesOrdered
    SplitsSumToTotal
PROPERTIES
    NoBlindOverwrite
    DeleteClearsSelection
    DeletedStaysDeleted
