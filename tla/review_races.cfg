CONSTANTS
    Request = {r1}
    Token = {t1, t2}
    Caller = {c1, c2}
    Worker = {w1}
    Submitter = {s1, s2}
    OverrideTo = {}
    LegacyLinks = TRUE
SPECIFICATION Spec
SYMMETRY Symmetry
INVARIANTS
    TypeOK
    ReviewsMatchSpends
    ReviewedIsDone
PROPERTIES
    RevokedIsFinal
    ImplementsWorkflow
