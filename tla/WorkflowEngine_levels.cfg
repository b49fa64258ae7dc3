SPECIFICATION FairSpec
CONSTANTS
    Tasks = {a, b, c}
    MaxCancels = 2
    MaxLost = 1
CHECK_DEADLOCK FALSE
INVARIANTS TypeOK LevelsSound SoundInputs VerdictTrue HistoryTrue
PROPERTY RunEnds
