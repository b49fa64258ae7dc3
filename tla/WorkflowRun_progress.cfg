SPECIFICATION FairSpec
CONSTANTS
    Runs = {w1}
    Processes = {p1, p2}
    HeartbeatLag = 1
    StaleThreshold = 1
    SweepInterval = 1
    IdleSweepInterval = 2
    MaxTime = 5
    MaxFaults = 2
CHECK_DEADLOCK FALSE
PROPERTY RunningOrphanSwept
