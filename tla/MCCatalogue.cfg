SPECIFICATION NarrowSpec
CONSTANTS
    Verbum = Verbum  VerbumAB = VerbumAB  Carus = Carus
    PubIds = {p1, p2}
    TagIds = {t1, t2, t3}
    Pieces = {m1, m2}
    Names = {Verbum, VerbumAB, Carus}
    Normal <- MCNormal
    FormKinds = {"voicing"}
    OtherKinds = {"free"}
    None = None
    MaxFetches = 1
SYMMETRY Keys
INVARIANTS
    TypeOK
    NamesAreUnique
PROPERTIES
    LinkedStaysLinked
    DeletionKeepsFamilies
