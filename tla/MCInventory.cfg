SPECIFICATION Spec
CONSTANTS
    p1 = p1  p2 = p2  m1 = m1  u1 = u1  u2 = u2  k1 = k1
    Pieces = {m1}
    Units = {u1, u2}
    PlacementIds = {p1, p2}
    PieceOf <- MCPieceOf
    Unlimited = Unlimited
    MaxRequest = 1
    MaxCopies = 1
    Editors = {ed}
    SessionIds = {s1, s2}
    Kiosks = {k1}
    At <- MCAt
    Areas <- MCAreas
    None = None
    Answers <- MCAnswers
    MaxCount = 1
SYMMETRY Keys
INVARIANTS
    OneOpenPerUser
    TypeOK
    NoDanglingCheck
PROPERTIES
    EndedSessionFrozen
