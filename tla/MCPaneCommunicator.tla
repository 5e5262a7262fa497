------------------------ MODULE MCPaneCommunicator ----------------------------
(***************************************************************************)
(* TLC: panes of a few tetrahedra and pyramids in two processes.           *)
(***************************************************************************)
EXTENDS GhostConnectivity

\* Local numbers of the nodes at points e in a pane with nodes at s
Numbers(s, e) == [k \in DOMAIN e |-> CHOOSE n \in DOMAIN s : s[n] = e[k]]

\* A mesh from the points of nodes and of elements, the values of nodes by
\* pane and point, those of cells by pane and number
Case(own, win, pos, cells, val, calls) ==
    [owner |-> own, win |-> win, pos |-> pos,
     elems |-> [p \in DOMAIN cells |-> [i \in DOMAIN cells[p] |-> Numbers(pos[p], cells[p][i])]],
     val |-> val,
     cval |-> [p \in DOMAIN cells |-> [i \in DOMAIN cells[p] |-> 10 * p + i]],
     calls |-> calls]

Numbered(pos) == [p \in DOMAIN pos |-> [n \in DOMAIN pos[p] |-> 10 * p + n]]

\* Three panes around the edge of points 1 and 2, pane 0 of two tetrahedra
RingPos == (0 :> <<5, 2, 1, 4, 3>>) @@ (1 :> <<6, 1, 5, 2>>) @@ (2 :> <<1, 3, 2, 6>>)
RingCells == (0 :> <<<<1, 2, 3, 4>>, <<1, 2, 4, 5>>>>) @@ (1 :> <<<<1, 2, 5, 6>>>>) @@ (2 :> <<<<2, 1, 3, 6>>>>)
TwoAndOne == (0 :> 1) @@ (1 :> 1) @@ (2 :> 2)
RingVal(a, b, c) == (0 :> <<a, b, 7, 2, 4>>) @@ (1 :> <<c, 5, a, b>>) @@ (2 :> <<-4, c, -b, 3>>)
RingCases ==
    <<Case(TwoAndOne, {0, 1, 2}, RingPos, RingCells, RingVal(6, 0, 1), <<"compute_pconn", "average", "minabs">>),
      Case(TwoAndOne, {0, 1, 2}, RingPos, RingCells, RingVal(0, -6, 1), <<"compute_pconn", "diff">>),
      Case(TwoAndOne, {0, 1, 2}, RingPos, RingCells, RingVal(6, 0, 1), <<"compute_pconn", "maxabs">>)>>

\* The ring with pane 1 in the parent window only
Inherited ==
    <<Case((0 :> 1) @@ (1 :> 2) @@ (2 :> 2), {0, 2}, RingPos, RingCells, RingVal(6, 0, 1),
           <<"compute_parent_pconn", "average", "minabs">>)>>

\* Ghosts, of a pyramid and tetrahedra around it, and their use
PyramidPos == (0 :> <<4, 5, 3, 1, 2>>) @@ (1 :> <<7, 5, 2, 6, 1, 8>>) @@ (2 :> <<5, 9, 2, 3>>)
PyramidCells ==
    (0 :> <<<<1, 2, 3, 4, 5>>>>) @@ (1 :> <<<<1, 2, 5, 6>>, <<6, 7, 8, 1>>>>) @@ (2 :> <<<<2, 3, 5, 9>>>>)
GhostCases ==
    <<Case((0 :> 2) @@ (1 :> 1) @@ (2 :> 1), {0, 1, 2}, PyramidPos, PyramidCells, Numbered(PyramidPos),
           build_pconn \o <<"resize", "ghost_nodes", "ghost_cells">>)>>

\* Meshes for the lists alone: two tetrahedra with a face in common, in one or
\* two processes, their nodes numbered in several ways, once with a node given
\* twice; and a pane without elements, whose nodes are isolated.
Orders == <<<<1, 2, 3, 4>>, <<3, 1, 4, 2>>, <<4, 3, 2, 1>>>>
Others == <<<<5, 4, 3, 2>>, <<2, 4, 5, 3, 3>>, <<3, 5, 2, 4>>>>
Isolated == <<<<3, 9, 3>>, <<5, 1>>, <<>>>>
ListCases ==
    [i \in 1..54 |->
        LET pos == (0 :> Orders[(i % 3) + 1]) @@ (1 :> Others[((i \div 3) % 3) + 1])
                   @@ (2 :> Isolated[((i \div 9) % 3) + 1])
        IN Case((0 :> 1) @@ (1 :> 1 + ((i - 1) \div 27)) @@ (2 :> 2), {0, 1, 2}, pos,
                (0 :> <<<<1, 2, 3, 4>>>>) @@ (1 :> <<<<2, 3, 4, 5>>>>) @@ (2 :> <<>>),
                Numbered(pos), <<"compute_pconn">>)]

MCMeshes == Range(RingCases) \cup Range(Inherited) \cup Range(GhostCases) \cup Range(ListCases)
==============================================================================
