SPECIFICATION Spec
CONSTANTS
    Users = {ann, root}
    Admins = {root}
    EntryIds = {e1, e2}
    Projects = {}
    Tasks = {}
    ProjectOf <- MCProjectOf
    UserOf <- MCUserOf
    CanRead <- MCCanRead
    MaxDate = 1
    Requests = {r1, r2}
    Null = Null
    Absent = Absent
    NoRow = NoRow
SYMMETRY Symmetry
INVARIANT EndsAfterStart
CHECK_DEADLOCK FALSE
