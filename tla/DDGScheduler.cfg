SPECIFICATION FairSpec
CONSTANTS
    Keys = {x, y}
    MaxItems = 3
    MaxSlots = 2
    NULL = NULL
INVARIANT LinksAgree
INVARIANT DataflowOrder
PROPERTY ImplementsContract
PROPERTY GoodGraphsScheduled
CHECK_DEADLOCK FALSE
