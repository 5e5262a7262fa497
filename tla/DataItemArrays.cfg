SPECIFICATION MCSpec
CONSTANTS
    Item = {i1, i2, i3}
    ClientArray = {a}
    ClientLen = 2
    Block = {b1, b2}
    MaxSize = 2
    Sizes = {1, 2}
    Caps = {0}
    NULL = NULL
    Pane = {i1, i2, i3}
    TableNames <- MCTableNames
    Counts = {1, 2}
    Dims <- MCDims
    NoPane = NoPane
SYMMETRY Symmetry
INVARIANT StorageSound
INVARIANT MeshExact
PROPERTY ValuesKept
CHECK_DEADLOCK FALSE
