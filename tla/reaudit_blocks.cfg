SPECIFICATION Spec
CONSTANTS
    Assigners = {a1}
    Auditors = {}
    Reviewers = {r1}
    Issuers = {i1}
    Blockers = {}
    Reaudits = {e1}
    Admins = {}
    MaxFailures = 0
INVARIANT ReauditBlocks
CHECK_DEADLOCK FALSE
