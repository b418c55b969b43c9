CONSTANTS
    Listed = {m2}
    Mentor = {m1, m2}
    EmailOf <- SharedAddress
    Worker = {w1, w2}
    Caller = {c1}
    ReplayDays = 1
    MaxTokens = 0
    MaxFaults = 1
SPECIFICATION SpecListed
SYMMETRY Symmetry
CHECK_DEADLOCK FALSE
INVARIANTS
    ActivatedNeverDraft
