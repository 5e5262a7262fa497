\* Three processes; restarts, shared files under every rule, control files
\* written by hand, and reads by material.
SPECIFICATION Spec
CONSTANTS
  NProcs = 3
  DataSets <- AllSets
  Names <- AllNames
  MatOrder <- Materials
INVARIANTS ItemsExact PanesPartitioned Restored
PROPERTY AllReturn
\* The processes stop when the read is over.
CHECK_DEADLOCK FALSE
