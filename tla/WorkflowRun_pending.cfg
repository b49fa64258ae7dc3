SPECIFICATION FairSpec
CONSTANTS
    Runs = {w1, w2}
    Processes = {p1}
    HeartbeatLag = 1
    StaleThreshold = 1
    SweepInterval = 1
    IdleSweepInterval = 2
    MaxTime = 4
    MaxFaults = 1
CHECK_DEADLOCK FALSE
PROPERTY OrphanSwept
