SPECIFICATION Spec
CONSTANTS
    Ranks = {1, 2}
    Meshes <- MCMeshes
INVARIANT RightBuffer
INVARIANT PconnExact
INVARIANT CallsExact
INVARIANT GhostLayerExact
PROPERTY AllReturn
CHECK_DEADLOCK FALSE
