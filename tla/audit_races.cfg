SPECIFICATION Spec
CONSTANTS
    Assigners = {a1}
    Auditors = {}
    Reviewers = {r1, r2}
    Issuers = {i1}
    Blockers = {b1}
    Reaudits = {e1}
    Admins = {m1}
    MaxFailures = 1
SYMMETRY Symmetry
INVARIANTS TypeOK CertificateHasBasis
PROPERTIES DecisionsKept ArchivedFrozen
CHECK_DEADLOCK FALSE
