SPECIFICATION Spec
CONSTANTS
    LocationIds = {l1, l2}
    UnitIds = {u1, u2, u3}
    KindIds = {k1}
    KioskIds = {q1}
    Pieces = {m1}
    None = None
SYMMETRY Keys
INVARIANTS
    TypeOK
    ReferencesHold
    Forest
    TreeShowsLiveChains
    FormOffersWhatIsTaken
