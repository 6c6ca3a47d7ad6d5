CONSTANTS
    Users = {u1, u2}
    SessionIds = {s1, s2}
    Clients = {c1, c2}
    Requests = {r1, r2}
    RefreshTTL = 2
    AccessTTL = 1
    MaxTime = 2
    NoRow = NoRow
    NoToken = NoToken
SPECIFICATION Spec
SYMMETRY Symmetry
INVARIANTS
    TypeOK
    TokensNeverCrossUsers
    ExpiryAgrees
    RevokedLoggedOnce
PROPERTY RefinesOwnedRows
CHECK_DEADLOCK FALSE
