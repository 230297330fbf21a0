SPECIFICATION FairSpec
CONSTANTS
    Auditors = {u1, u2}
    Reviewers = {r1}
    Nobody = Nobody
    Invites = {i1, i2}
    Accepts = {a1, a2}
    Declines = {}
    Unassigns = {n1}
    ReviewerAssigns = {}
    ReviewerUnassigns = {}
    Openers = {}
    MaxFailures = 0
  
PROPERTY AcceptanceSettles
CHECK_DEADLOCK FALSE
