SPECIFICATION Spec
CONSTANTS
    UserIds = {ann, root}
    Admins = {root}
    ProjectIds = {g1}
    CanRead <- MCCanRead
    InvoiceIds = {i1, i2}
    PaymentIds = {p1}
    MaxNumber = 2
    MaxYear = 2
    ByHand <- MCByHand
    Requests = {r1, r2}
    Null = Null
    Absent = Absent
    NoRow = NoRow
SYMMETRY Symmetry
INVARIANTS TypeOK LinkedWithinOwner NumberedInOrder
PROPERTY RefinesOwnedRows
CHECK_DEADLOCK FALSE
