SPECIFICATION FairSpec
CONSTANTS
    Managers = {m1, m2}
    MaxGrants = 2
    MaxGeneration = 2
    MaxTime = 2
    MaxFaults = 1
CHECK_DEADLOCK FALSE
INVARIANTS TypeOK NoReplay StoredIsLive
PROPERTY FlightEnds
