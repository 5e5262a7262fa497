\* Every 2-manifold pane that can be cut from the pyramid, real or ghost face
\* by face, with up to two isolated nodes, with and without its ghosts.
SPECIFICATION Spec
CONSTANTS
  Meshes <- AllPanes
  BndID = 15
INVARIANTS TablesExact WalksRight
PROPERTY WalksEnd
\* A client may stop walking; a closed pane has no border to walk along.
CHECK_DEADLOCK FALSE
