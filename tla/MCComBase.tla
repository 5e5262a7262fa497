------------------------------ MODULE MCComBase -------------------------------
(* TLC: window names and libraries are interchangeable.                     *)
EXTENDS ComBase, TLC
Symmetry == Permutations(Wins) \cup Permutations(Libs)

\* Names on record without a window, or of windows that others made.
Leftovers ==
    \E p \in DOMAIN module_map.names, w \in Wins :
        /\ w \in module_map.i2o[p]
        /\ Has(window_map, w) => Lib(w) # module_map.names[p]

\* Three Window objects are explored, and so is the profile, which no table
\* depends on, as long as unloads do not nest and leave nothing behind; where they
\* do, with one handle of a dataitem.
Simple == ~Leftovers /\ Len(unloads) <= 1
Bounds ==
    /\ Len(made) > 2 => Simple /\ clock = 0 /\ ~profile.on
    /\ Simple \/ Len(attr_map.i2o) <= 2
    /\ clock > 0 \/ profile.on => Simple /\ Len(attr_map.i2o) <= 1
==============================================================================
