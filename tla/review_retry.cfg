SPECIFICATION Spec
CONSTANTS
    Submits = {s1}
    Retries = {d1}
    Resets = {}
    Polls = {}
    Sweeps = {w1, w2}
    MaxAttempts = 2
    MaxFaults = 2
    FaultAt <- AllFaults
    MaxCrashes = 1
SYMMETRY Symmetry
INVARIANTS TypeOK RetryCap
CHECK_DEADLOCK FALSE
