SPECIFICATION Spec
CONSTANTS
    Demands = {d1, d2}
    Heartbeat = beat
    MinInterval = 2
    BaseInterval = 4
    Caps <- MCWideCaps
    Stretch <- MCStretch
    DemandMaxAge = 2
    ClaimTTL = 2
    PollBound = 2
    StuckTimeout = 2
    WakeSlack = 1
    Minute = 2
    MaxTime = 5
    MaxEmpty = 2
    MaxFaults = 1
    MaxEdits = 1
CHECK_DEADLOCK FALSE
SYMMETRY MCSymmetry
INVARIANTS TypeOK NoLostFold
PROPERTY ImplementsLease
