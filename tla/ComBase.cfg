SPECIFICATION Spec
CONSTANTS
    Libs = {l1, l2}
    Wins = {w1, w2}
    MaxObjects = 3
    MaxHandles = 3
    MaxDepth = 2
    MaxUnloads = 2
    MaxClock = 2
SYMMETRY Symmetry
INVARIANT TablesAgree
INVARIANT FreshHandles
INVARIANT LibrariesOpen
INVARIANT ProfileExact
CONSTRAINT Bounds
