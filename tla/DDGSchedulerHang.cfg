SPECIFICATION FairSpec
CONSTANTS
    Keys = {x, y}
    MaxItems = 2
    MaxSlots = 1
    NULL = NULL
PROPERTY ScheduleReturns
CHECK_DEADLOCK FALSE
