--------------------------- MODULE MCDataItemArrays ---------------------------
(* TLC instances of DataItemArrays and MeshTables: two machines that share *)
(* nothing, of which one moves in a behaviour.                             *)
EXTENDS DataItemArrays, MeshTables, TLC

VARIABLE machine

MCTableNames == <<"q4", "v3">>
MCDims == {<<4, 5>>, <<5, 6>>}

MCInit == Init /\ MeshInit /\ machine \in {"arrays", "mesh"}

MCNext ==
    /\ UNCHANGED machine
    /\ \/ machine = "arrays" /\ Next /\ UNCHANGED pane
       \/ machine = "mesh" /\ MeshNext /\ UNCHANGED vars

MCSpec == MCInit /\ [][MCNext]_<<vars, pane, machine>>

\* The same model values stand for the items and for the panes.
Symmetry == Permutations(Item) \cup Permutations(Block)
===============================================================================
