SPECIFICATION Spec
CONSTANTS
    Runs = {w1, w2}
    Processes = {p1, p2}
    HeartbeatLag = 2
    StaleThreshold = 2
    SweepInterval = 1
    IdleSweepInterval = 2
    MaxTime = 5
    MaxFaults = 2
CHECK_DEADLOCK FALSE
SYMMETRY MCSymmetry
INVARIANTS TypeOK ExclusiveExecution
PROPERTIES TerminalIsFinal ImplementsLease
