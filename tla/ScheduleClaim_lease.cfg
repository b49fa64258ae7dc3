SPECIFICATION Spec
CONSTANTS
    Schedules = {s1, s2}
    Replicas = {r1, r2}
    Cadences <- MCShortCadences
    NextRun <- MCNextRun
    Graces <- MCGraces
    MaxConcurrent = 1
    DispatchTimeout = 2
    StuckTimeout = 3
    GracefulStop = TRUE
    MaxTime = 5
    MaxFaults = 1
    MaxEdits = 0
CHECK_DEADLOCK FALSE
SYMMETRY MCSymmetry
INVARIANTS TypeOK LiveClaimKept WindowOnce
PROPERTY ImplementsLease
