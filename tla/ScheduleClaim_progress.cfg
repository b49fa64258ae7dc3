SPECIFICATION FairSpec
CONSTANTS
    Schedules = {s1}
    Replicas = {r1, r2}
    Cadences <- MCCadences
    NextRun <- MCNextRun
    Graces <- MCGraces
    MaxConcurrent = 1
    DispatchTimeout = 1
    StuckTimeout = 2
    GracefulStop = TRUE
    MaxTime = 5
    MaxFaults = 1
    MaxEdits = 1
CHECK_DEADLOCK FALSE
INVARIANT WindowOnce
PROPERTIES ClaimReleased DueIsServed
