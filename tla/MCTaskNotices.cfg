SPECIFICATION Spec
CONSTANTS
    ann = ann
    bob = bob
    UserIds = {ann, bob}
    Admins = {bob}
    TaskIds = {t1}
    OwnerOf <- MCOwnerOf
    Status = {PENDING, COMPLETED}
    NoticeIds = {n1, n2, n3, n4, l1}
    LetterIds = {l1}
    MaxTold = 3
    Requests = {r1, r2}
    Created = Created
    NoTask = NoTask
    Written = Written
    NoRow = NoRow
SYMMETRY Symmetry
INVARIANTS TypeOK ToldOnceEach
PROPERTIES ChangesAnnouncedWhenAlone ReadByRecipient RefinesOwnedRows
CHECK_DEADLOCK FALSE
