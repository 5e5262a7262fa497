SPECIFICATION Spec
CONSTANTS
    NAgents = 2
    Dts = {2, 4}
    Starts = {0, 4}
    MaxPC = 3
    MaxTime = 8
    Scale = 12
INVARIANT LifeCycle
INVARIANT CorrectorRestarts
INVARIANT InterpolationExact
CHECK_DEADLOCK FALSE
