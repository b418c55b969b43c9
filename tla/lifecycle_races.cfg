CONSTANTS
    Listed = {}
    Mentor = {m1}
    EmailOf <- SharedAddress
    Worker = {w1, w2}
    Caller = {c1, c2}
    ReplayDays = 1
    MaxTokens = 2
    MaxFaults = 1
SPECIFICATION Spec
SYMMETRY Symmetry
CHECK_DEADLOCK FALSE
INVARIANTS
    TypeOK
    DeletedIsHidden
    ClaimedLinkIsLive
    ApprovedHasNoNote
    NobodyForgotten
PROPERTIES
    DeletedIsInert
    ImplementsProfile
