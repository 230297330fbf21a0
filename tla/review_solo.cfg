SPECIFICATION FairSpec
CONSTANTS
    Submits = {s1}
    Retries = {}
    Resets = {}
    Polls = {g1}
    Sweeps = {w1}
    MaxAttempts = 2
    MaxFaults = 2
    FaultAt <- SoloFaults
    MaxCrashes = 0
INVARIANT CompletedAgrees
PROPERTIES KeepsLifecycle FailedIsRetried
CHECK_DEADLOCK FALSE
