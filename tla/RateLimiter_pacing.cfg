SPECIFICATION FairSpec
CONSTANTS
    Callers = {c1, c2}
    Interval = 2
    Capacity = 2
    MaxPause = 3
    MaxAttempts = 2
    MaxBrakes = 2
    MaxCancels = 1
CHECK_DEADLOCK FALSE
INVARIANTS TypeOK Paced
PROPERTIES PauseRespected CallsServed
