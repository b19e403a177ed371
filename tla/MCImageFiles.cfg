SPECIFICATION Spec
CONSTANTS
    Files = {f1, f2, f3}
    Pieces = {m1, m2}
    ScanIds = {s1, s2}
    Units = {u1}
    People = {x}
    None = None
    MaxImages = 2
    MaxHeld = 2
SYMMETRY Keys
INVARIANTS
    IInv
    NewScansHavePictures
    PhotosAndPortraitsOnDisk
PROPERTIES
    DeletePieceSparesOthers
