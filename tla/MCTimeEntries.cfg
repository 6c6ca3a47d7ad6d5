SPECIFICATION Spec
CONSTANTS
    Users = {ann, root}
    Admins = {root}
    EntryIds = {e1, e2}
    Projects = {p1}
    Tasks = {t1}
    ProjectOf <- MCProjectOf
    UserOf <- MCUserOf
    CanRead <- MCCanRead
    MaxDate = 0
    Requests = {r1, r2}
    Null = Null
    Absent = Absent
    NoRow = NoRow
SYMMETRY Symmetry
INVARIANT TypeOK
INVARIANT TaskWithinProject
PROPERTY StartedAlone
PROPERTY TimersStoppedByOwner
PROPERTY RefinesOwnedRows
CHECK_DEADLOCK FALSE
