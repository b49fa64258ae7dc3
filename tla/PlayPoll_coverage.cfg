SPECIFICATION Spec
CONSTANTS
    Demands = {d1}
    Heartbeat = beat
    MinInterval = 2
    BaseInterval = 2
    Caps <- MCNarrowCaps
    Stretch <- MCStretch
    DemandMaxAge = 2
    ClaimTTL = 2
    PollBound = 1
    StuckTimeout = 1
    WakeSlack = 1
    Minute = 2
    MaxTime = 17
    MaxEmpty = 2
    MaxFaults = 1
    MaxEdits = 0
CHECK_DEADLOCK FALSE
INVARIANT Covered
