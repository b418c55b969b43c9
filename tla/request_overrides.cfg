CONSTANTS
    Request = {r1}
    Token = {t1}
    Caller = {c1, c2}
    Worker = {w1, w2}
    Submitter = {s1}
    OverrideTo = {"pending"}
    LegacyLinks = FALSE
SPECIFICATION Spec
SYMMETRY Symmetry
INVARIANTS
    AnnouncedOnce
