SPECIFICATION LendingSpec
CONSTANTS
    p1 = p1  p2 = p2  m1 = m1  u1 = u1  u2 = u2
    Users = {ed, rd}
    Editors = {ed}
    Admins = {}
    Outsiders = {ext}
    Nobody = Nobody
    Pieces = {m1}
    Units = {u1, u2}
    Kiosks <- MCKiosks
    PlacementIds = {p1, p2}
    PieceOf <- MCPieceOf
    LoanIds = {l1, l2, l3}
    BatchIds = {b1, b2}
    NoBatch = NoBatch
    Unlimited = Unlimited
    MaxRequest = 1
    MaxCopies = 2
SYMMETRY Keys
INVARIANTS
    OneCartPerUser
    ReturnedBatchClosed
    ActiveBatchFetched
    OneRowPerPlacement
    BorrowerAgrees
PROPERTIES
    FetchedRowsKept
    ImplementsLifecycle
\* No batch is ever deleted: the bounded keys of the table run out.
CHECK_DEADLOCK FALSE
