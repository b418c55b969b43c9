CONSTANTS
    Request = {r1}
    Token = {t1}
    Caller = {c1}
    Worker = {w1}
    Submitter = {s1}
    OverrideTo = {}
    LegacyLinks = TRUE
SPECIFICATION Spec
SYMMETRY Symmetry
INVARIANTS
    InvitationsDieWithProfile
