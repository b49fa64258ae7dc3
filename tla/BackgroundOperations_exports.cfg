SPECIFICATION Spec
CONSTANTS
    Ops = {}
    Exports = {x1, x2}
    Owner <- MCOwner
    FileCount = 2
    MaxSlots = 2
    MaxFaults = 1
CHECK_DEADLOCK FALSE
INVARIANTS TypeOK BusyCoversWork CompleteIsTrue DirsFollowQueues DrainToldLast
PROPERTY ImplementsSerialImport
