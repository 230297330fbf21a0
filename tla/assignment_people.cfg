SPECIFICATION Spec
CONSTANTS
    Auditors = {u1}
    Reviewers = {r1}
    Nobody = Nobody
    Invites = {i1, i2}
    Accepts = {a1}
    Declines = {d1}
    Unassigns = {}
    ReviewerAssigns = {v1}
    ReviewerUnassigns = {w1}
    Openers = {o1}
    MaxFailures = 1
INVARIANTS TypeOK 
CHECK_DEADLOCK FALSE
