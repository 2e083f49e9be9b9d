SPECIFICATION Spec
CONSTANTS
    Nil = Nil
    Users = {u1}
    People = {u1, u2, u3}
    Passwords = {p1, p2}
    Sessions = {1, 2}
    RefreshTokens = {1, 2, 3}
    UserTokens = {1, 2}
    Goroutines = {1, 2}
    Instances = {1, 2}
    Tickets = {1}
    Conns = {1}
    Invites = {1, 2}
    Attachments = {a1}
    Covers = {c1, c2}
    AutoVerifyEmail = FALSE
    Budgets <- RemovalBudgets
INVARIANT RemovalsKnown
CHECK_DEADLOCK FALSE
