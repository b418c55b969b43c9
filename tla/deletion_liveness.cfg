CONSTANTS
    Request = {r1}
    Token = {t1, t2}
    Caller = {c1}
    Worker = {w1}
    Submitter = {s1, s2}
    OverrideTo = {}
    LegacyLinks = FALSE
SPECIFICATION FairSpec
PROPERTIES
    DeletionEnds
