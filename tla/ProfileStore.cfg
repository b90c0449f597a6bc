SPECIFICATION Spec
CONSTANTS
    Calls = {c1, c2}
    NoCall = NoCall
    Bodies = {b1, b2}
    NoBody = NoBody
    MaxRequests = 2
    MaxAccounts = 2
    MaxProfiles = 2
SYMMETRY Symmetry
INVARIANTS
    BootstrapIsShared
    ShownIsHeld
    NothingOutOfSight
    LoadIsAlone
PROPERTIES
    NoAccountAbandoned
    LoadShowsWhatIsHeld
