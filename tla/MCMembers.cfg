SPECIFICATION Spec
CONSTANTS
    Users = {u1, u2}
    Emails = {e1}
    Identities = {g1}
    Passwords = {p1, p2}
    Tokens = {i1, i2, i3}
    Calls = {r1, r2}
    MaxFailures = 2
    MaxWrong = 4
    NoUser = NoUser
    NoToken = NoToken
    NoPassword = NoPassword
    Members = {u1, u2}
    Guests = {v1}
    Products = {p1, p2}
    Rows = {i1, i2, i3}
    Viewers = {r1, r2}
    LastView = 3
    NoRecent = NoRecent
SYMMETRY Symmetry
INVARIANTS
    TypesOK
    LockoutExact
    LockNeedsFailures
    OneActivePerLogin
    LogoutEndsLogin
    HistoryExact
    HistoryKept
PROPERTY LockHolds
CHECK_DEADLOCK FALSE
