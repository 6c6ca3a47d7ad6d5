SPECIFICATION Spec
CONSTANTS
    founder = founder
    a = a
    aUpper = aUpper
    b = b
    UserIds = {founder, u1}
    Founders = {founder}
    Inviters = {founder}
    Emails = {a, aUpper, b}
    Invitable = {a, aUpper, b}
    Lower <- MCLower
    FounderEmail <- MCFounderEmail
    Companies = {acme}
    InScope <- MCInScope
    InviteIds = {i1, i2}
    Requests = {r1, r2}
    InviteTTL = 0
    MaxTime = 1
    MaxResends = 1
    NoRow = NoRow
    NoCompany = NoCompany
    NoInvite = NoInvite
    NoLink = NoLink
SYMMETRY Symmetry
INVARIANT OnePendingPerAddress
CHECK_DEADLOCK FALSE
