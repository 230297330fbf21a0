SPECIFICATION FairSpec
CONSTANTS
    Submits = {s1, s2}
    Retries = {}
    Resets = {x1}
    Polls = {g1}
    Sweeps = {}
    MaxAttempts = 2
    MaxFaults = 0
    FaultAt <- NoFaults
    MaxCrashes = 0
INVARIANTS ReviewingHasDriver ReviewKeepsItsOwnGrade
PROPERTY ReviewingEnds
CHECK_DEADLOCK FALSE
