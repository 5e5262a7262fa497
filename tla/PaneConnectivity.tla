-------------------------- MODULE PaneConnectivity ---------------------------
(***************************************************************************)
(* Pane_connectivity and Pane_boundary: which nodes two panes share.       *)
(*                                                                         *)
(* A mesh gives every pane the process that owns it, its elements (lists   *)
(* of nodes: tetrahedra and pyramids) and the points its nodes lie at.     *)
(* Points are numbers, for the code compares them up to a tolerance that   *)
(* is far smaller than any edge.                                           *)
(*                                                                         *)
(* Every process computes the lists of its own panes, from what it has     *)
(* gathered of the others.  Nothing of the lists themselves is exchanged:  *)
(* the k-th node of one list meets the k-th of the other only because both *)
(* processes put them in the same order.                                   *)
(***************************************************************************)
EXTENDS Integers, Sequences, SequencesExt, FiniteSetsExt

Nodes(mesh, p) == DOMAIN mesh.pos[p]

\* The members of S in the total order Less
Sorted(S, Less(_, _)) ==
    [i \in 1..Cardinality(S) |-> CHOOSE x \in S : Cardinality({y \in S : Less(y, x)}) = i - 1]

------------------------------------------------------------------------------
(* Pane_boundary *)

Faces(e) ==
    IF Len(e) = 4 THEN {Range(e) \ {e[i]} : i \in 1..4}
    ELSE {{e[1], e[2], e[3], e[4]}} \cup {{e[i], e[(i % 4) + 1], e[5]} : i \in 1..4}

\* A face that is met again is taken out of the map: those left are of one
\* element, or of an odd number.
check_face_unique(elems, f) == Cardinality({e \in elems : f \in Faces(e)}) % 2 = 1

\* determine_border_nodes_3, for unstructured panes
is_border(mesh, p) ==
    LET elems == Range(mesh.elems[p])
    IN UNION {f \in UNION {Faces(e) : e \in elems} : check_face_unique(elems, f)}

\* determine_isolated_nodes: no element has them.
is_isolated(mesh, p) == Nodes(mesh, p) \ UNION {Range(e) : e \in Range(mesh.elems[p])}

------------------------------------------------------------------------------
(* Pane_connectivity, for the panes P of a window *)

\* The points of isolated nodes that all processes gather
IsolatedPoints(mesh, P) == UNION {{mesh.pos[p][n] : n \in is_isolated(mesh, p)} : p \in P}

determine_coisolated_nodes(mesh, P, p) ==
    UNION {{n \in Nodes(mesh, p) : mesh.pos[p][n] = x} : x \in IsolatedPoints(mesh, P)}

get_local_boundary_nodes(mesh, P, p) == is_border(mesh, p) \cup determine_coisolated_nodes(mesh, P, p)

\* Pairs of a node of p and a node of q that coincide, of the boundary nodes B
Coincident(mesh, B, p, q) ==
    {pr \in B[p] \X B[q] : /\ mesh.pos[p][pr[1]] = mesh.pos[q][pr[2]]
                           /\ p = q => pr[1] < pr[2]}

Lex(a, b) == a[1] < b[1] \/ (a[1] = b[1] /\ a[2] < b[2])

\* b2v_map of process r: for two panes, the smaller one first, the pairs of
\* nodes that coincide with each other and with a boundary node of r; two nodes
\* of one pane are such a pair, of a remote pane too.
b2v_map(mesh, P, B, r) ==
    LET here == UNION {{mesh.pos[p][n] : n \in B[p]} : p \in {p \in P : mesh.owner[p] = r}}
    IN [pq \in {pq \in P \X P : pq[1] <= pq[2]} |->
           {pr \in Coincident(mesh, B, pq[1], pq[2]) : mesh.pos[pq[1]][pr[1]] \in here}]

\* The assertion that a pair within one pane is of a local pane
PairsAreLocal(mesh, map, r) ==
    \A pq \in DOMAIN map : pq[1] = pq[2] /\ map[pq] # {} => mesh.owner[pq[1]] = r

\* Mutant: each process keeps the order in which it met its own nodes.
MetOrder(pairs, p, q) ==
    Sorted(pairs, LAMBDA a, b : IF p <= q THEN Lex(a, b) ELSE Lex(<<a[2], a[1]>>, <<b[2], b[1]>>))
\* The pairs of panes p and q as p lists them: by the node of the smaller pane
SortedPairs(pairs, p, q) == Sorted(pairs, Lex)

\* b2v_map is sorted by pane ids, of which those of remote panes are negative.
Signed(mesh, p, q) == IF mesh.owner[q] = mesh.owner[p] THEN q + 1 ELSE -(q + 1)
Before(mesh, p, a, b) ==
    Lex(<<Signed(mesh, p, Min({p, a})), Signed(mesh, p, Max({p, a}))>>,
        <<Signed(mesh, p, Min({p, b})), Signed(mesh, p, Max({p, b}))>>)

\* The list of pane p from the map of its process: the panes it shares nodes
\* with, and these nodes; in pairs if it is the pane itself.
create_b2map(mesh, P, map, p) ==
    LET Pairs(q) == map[<<Min({p, q}), Max({p, q})>>]
        cpanes == Sorted({q \in P : Pairs(q) # {}}, LAMBDA a, b : Before(mesh, p, a, b))
        Listed(q, s) == [pane |-> q, nodes |-> IF q = p THEN FlattenSeq(s)
                                               ELSE [k \in DOMAIN s |-> s[k][IF p < q THEN 1 ELSE 2]]]
    IN [j \in DOMAIN cpanes |-> Listed(cpanes[j], SortedPairs(Pairs(cpanes[j]), p, cpanes[j]))]
==============================================================================
