SPECIFICATION Spec
CONSTANTS
    Names = {x, y, z}
    PaneIds = {1, 2}
    MaxComp = 2
    MaxId = 20
    NULL = NULL
    Freed = Freed
INVARIANT ItemsDoNotOverlap
INVARIANT PanesAgree
INVARIANT OnlyRegisteredListed
PROPERTY KeywordsKept
PROPERTY IdStable
CHECK_DEADLOCK FALSE
