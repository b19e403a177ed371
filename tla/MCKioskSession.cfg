SPECIFICATION Spec
CONSTANTS
    Users = {a}
    Kiosks = {k}
    None = None
    Timeout = 2
    MAX_ATTEMPTS = 2
    WINDOW_SECONDS = 2
    LOCKOUT_SECONDS = 1
    MaxFlight = 2
INVARIANTS
    IInv
    NoCookieIsYounger
    FailuresAreBounded
PROPERTIES
    IdleBorrowersAreOut
    LockoutEnds
