SPECIFICATION FairSpec
CONSTANTS
    Assigners = {a1}
    Auditors = {u1}
    Reviewers = {r1}
    Issuers = {i1, i2}
    Blockers = {b1}
    Reaudits = {e1}
    Admins = {}
    MaxFailures = 0
INVARIANT StageEarned
PROPERTIES KeepsCertificateLifecycle 
CHECK_DEADLOCK FALSE
