SPECIFICATION Spec
CONSTANTS
    Ranks = {1, 2, 3}
    Panes <- MCPanes
    Overlay <- MCOverlay
    Scripts <- MCScripts
    NRounds = 3
INVARIANT RightBuffer
INVARIANT ReplicasExact
PROPERTY AllReturn
CHECK_DEADLOCK FALSE
