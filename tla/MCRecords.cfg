SPECIFICATION RecordsSpec
CONSTANTS
    ann = ann
    root = root
    UserIds = {ann, root}
    Held <- MCHeld
    CompanyIds = {c1}
    ProjectIds = {p1}
    TaskIds = {t1}
    Requests = {r1, r2}
    NoCompany = NoCompany
    NoRow = NoRow
    RecordIds = {i1}
    Calls = {q1, q2}
    NoLink = NoLink
SYMMETRY Symmetry
INVARIANTS TypeOK CopiesMatch TaskAccessFollowsProject RecordsTypeOK LinksWithinReach
PROPERTIES RecordsTouchedByOwner RefinesOwnedRows
CHECK_DEADLOCK FALSE
