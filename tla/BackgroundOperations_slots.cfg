SPECIFICATION FairSpec
CONSTANTS
    Ops = {o1}
    Exports = {x1}
    Owner <- MCOwner
    FileCount = 2
    MaxSlots = 1
    MaxFaults = 2
CHECK_DEADLOCK FALSE
INVARIANTS SlotsAccounted
PROPERTIES QueueDrains SlotsReturned RecordIsFinal
