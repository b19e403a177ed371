SPECIFICATION NarrowSpec
CONSTANTS
    n1 = n1  n2 = n2  n3 = n3
    m1 = m1  m2 = m2  a1 = a1
    PersonIds = {x, y}
    Pieces = {m1, m2}
    Names = {n1, n2, n3}
    Fold <- MCFold
    Artists = {a1}
    ArtistName <- MCArtistName
    NoArtist = NoArtist
    Kept = Kept
    MaxCredits = 1
    MaxHeld = 1
SYMMETRY Keys
INVARIANTS
    TypeOK
    CreditedExist
    CacheHasTheCredits
    OldNamesAreImported
PROPERTIES
    NewPeopleAreNew
