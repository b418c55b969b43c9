CONSTANTS
    Listed = {}
    Mentor = {m1}
    EmailOf <- SharedAddress
    Worker = {w1}
    Caller = {c1}
    ReplayDays = 3
    MaxTokens = 2
    MaxFaults = 2
SPECIFICATION TimelySpec
CHECK_DEADLOCK FALSE
PROPERTIES
    RegistrationConverges
INVARIANT
    NobodyGivenUpUnseen
