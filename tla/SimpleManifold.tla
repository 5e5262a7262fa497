-------------------------- MODULE SimpleManifold --------------------------
(* The halfedge tables of a surface pane (SurfMap/src/Simple_manifold_2.C and *)
(* its header): the constructor numbers the halfedges of the elements, links  *)
(* every halfedge to its opposite, gives an index to every border edge of the *)
(* real part, of the real/ghost interface and of the ghost part, and finds    *)
(* for every node one halfedge that leaves it.  Afterwards clients walk along *)
(* the borders of the whole pane, of its real part or of its ghost part.      *)
(*                                                                            *)
(* An unstructured pane of linear triangles and quadrilaterals is a record    *)
(*   conn  the node lists of the elements, real elements first,               *)
(*   nre   the number of real elements,    nrn  the number of real nodes,     *)
(*   nn    the number of nodes, real nodes first,                             *)
(*   ghost the argument with_ghost of the constructor.                        *)
(* A halfedge is <<element, local id>>, a border edge <<index, BndID>>, and   *)
(* Edge_ID(), the value of an entry not yet assigned, is <<0, 0>>.            *)
EXTENDS Integers, Sequences, FiniteSets, SequencesExt

CONSTANTS Meshes,   \* the panes the constructor may be given
          BndID     \* the local id that marks a border edge (15 in the code)

ASSUME BndIDAssumption == BndID \in Nat /\ BndID > 4

VARIABLES mesh,   \* the pane
          pc,     \* the loop of the constructor that runs, "ready" or "walk"
          cur,    \* the halfedge (or corner) the loop handles next
          oe,     \* _oeIDs_real_or_str and _oeIDs_ghost
          be,     \* _beIDs
          rg,     \* beIDs_rg, the real/ghost borders before they are merged
          size,   \* _size_real_borders, _size_rg_borders, _size_ghost_borders
          ie,     \* _ieIDs_real_or_str and _ieIDs_ghost
          walk    \* the border walk of a client

vars == <<mesh, pc, cur, oe, be, rg, size, ie, walk>>

NoEdge == <<0, 0>>
NoWalk == [part |-> "none", dir |-> "none", from |-> NoEdge, at |-> NoEdge]
Parts == {"whole", "real", "ghost"}

IsBorder(x) == x[2] = BndID
Border(k) == <<k, BndID>>

(****************************************************************************)
(* The pane.                                                                *)
(****************************************************************************)
NumElements == Len(mesh.conn)
SizeOfEdges(e) == Len(mesh.conn[e])
NodeOf(e, i) == mesh.conn[e][i + 1]
NextLid(e, i) == IF i = SizeOfEdges(e) - 1 THEN 0 ELSE i + 1
PrevLid(e, i) == IF i = 0 THEN SizeOfEdges(e) - 1 ELSE i - 1
Halfedges(es) == UNION {{e} \X (0 .. SizeOfEdges(e) - 1) : e \in es}

is_real_element(e) == e <= mesh.nre
is_ghost_element(e) == e > mesh.nre
is_real_node(v) == v <= mesh.nrn

WithGhost == mesh.ghost /\ (mesh.nn > mesh.nrn \/ NumElements > mesh.nre)

\* The elements and nodes the tables are about.
Elements == 1 .. (IF WithGhost THEN NumElements ELSE mesh.nre)
Nodes == 1 .. (IF WithGhost THEN mesh.nn ELSE mesh.nrn)

\* The most sides an element of the pane has, ghost elements included.
NSides == CHOOSE n \in {SizeOfEdges(e) : e \in 1 .. NumElements} :
             \A e \in 1 .. NumElements : SizeOfEdges(e) <= n

incident_elements(v) == {e \in Elements : v \in Range(mesh.conn[e])}

\* The elements with both nodes of a halfedge, in the order of their numbers.
CommonElements(e, i) ==
  incident_elements(NodeOf(e, i)) \cap incident_elements(NodeOf(e, NextLid(e, i)))

\* The first common element that is not e itself; 0 when there is none.
Neighbour(e, i) ==
  LET others == CommonElements(e, i) \ {e}
  IN  IF others = {} THEN 0 ELSE CHOOSE f \in others : \A g \in others : f <= g

\* The halfedge of f that ends in node v: the one before the corner of v.
EdgeInto(f, v) ==
  LET k == CHOOSE n \in 0 .. SizeOfEdges(f) - 1 : NodeOf(f, n) = v
  IN  <<f, PrevLid(f, k)>>

(****************************************************************************)
(* The border indices: pure real, real/ghost, pure ghost, isolated nodes.   *)
(****************************************************************************)
is_border_edge(x) ==
  /\ IsBorder(x)
  /\ x[1] <= Len(be)
  /\ ~WithGhost \/ x[1] <= size.real \/ x[1] > size.real + size.rg

is_real_border_edge(x) ==
  IsBorder(x) /\ (~WithGhost \/ x[1] <= size.real + size.rg)

is_ghost_border_edge(x) ==
  IsBorder(x) /\ x[1] <= Len(be) /\ WithGhost /\ x[1] > size.real

is_isolated_node(v) == is_real_node(v) /\ IsBorder(ie[v]) /\ ie[v][1] > Len(be)

is_real_border_node(v) ==
  is_real_node(v) /\ IsBorder(ie[v]) /\ ie[v][1] <= Len(be)

is_border_node(v) == is_border_edge(ie[v])

(****************************************************************************)
(* The opposite of a halfedge and of a border edge.                         *)
(****************************************************************************)
get_opposite_edge_interior(x) ==
  IF /\ is_ghost_element(x[1])
     /\ IsBorder(oe[x]) /\ oe[x][1] <= size.rg + size.real
  THEN be[oe[x][1]]
  ELSE oe[x]

get_opposite_ghost_edge_interior(x) == oe[x]

get_opposite_real_edge_interior(x) ==
  IF ~IsBorder(oe[x]) /\ is_ghost_element(oe[x][1])
  THEN get_opposite_ghost_edge_interior(oe[x])
  ELSE oe[x]

get_opposite_edge_border(x) == be[x[1]]

get_opposite_real_edge_border(x) == be[x[1]]

get_opposite_ghost_edge_border(x) ==
  IF is_real_element(be[x[1]][1]) THEN oe[be[x[1]]] ELSE be[x[1]]

OppositeInterior(part, x) ==
  CASE part = "whole" -> get_opposite_edge_interior(x)
    [] part = "real"  -> get_opposite_real_edge_interior(x)
    [] part = "ghost" -> get_opposite_ghost_edge_interior(x)

OppositeBorder(part, x) ==
  CASE part = "whole" -> get_opposite_edge_border(x)
    [] part = "real"  -> get_opposite_real_edge_border(x)
    [] part = "ghost" -> get_opposite_ghost_edge_border(x)

get_opposite(part, x) ==
  IF IsBorder(x) THEN OppositeBorder(part, x) ELSE OppositeInterior(part, x)

\* A border between real and ghost counts as a border of the real part.
BorderInside(x) ==
  IF is_real_border_edge(x) THEN get_opposite_real_edge_border(x)
                            ELSE get_opposite_ghost_edge_border(x)

get_origin(x) ==
  IF IsBorder(x)
  THEN LET y == BorderInside(x) IN NodeOf(y[1], NextLid(y[1], y[2]))
  ELSE NodeOf(x[1], x[2])

get_destination(x) ==
  IF IsBorder(x)
  THEN LET y == BorderInside(x) IN NodeOf(y[1], y[2])
  ELSE NodeOf(x[1], NextLid(x[1], x[2]))

\* Around an element: rows have NSides entries, unused ones hold Edge_ID().
get_prev_edge_interior(x) ==
  LET start == IF x[2] = 0 THEN NSides - 1 ELSE x[2] - 1
      used  == {i \in 0 .. start : oe[<<x[1], i>>] # NoEdge}
  IN  <<x[1], CHOOSE i \in used : \A k \in used : k <= i>>

get_next_edge_interior(x) ==
  IF x[2] + 1 >= NSides \/ oe[<<x[1], x[2] + 1>>] = NoEdge
  THEN <<x[1], 0>>
  ELSE <<x[1], x[2] + 1>>

\* An incident edge of a node; a real/ghost border is given by its ghost side.
get_incident_edge(v) ==
  IF /\ IsBorder(ie[v])
     /\ ie[v][1] > size.real /\ ie[v][1] <= size.real + size.rg
  THEN oe[be[ie[v][1]]]
  ELSE ie[v]

(****************************************************************************)
(* The constructor: one step per halfedge of determine_opposite_halfedges   *)
(* and per corner of determine_incident_halfedges.                          *)
(****************************************************************************)
Init ==
  /\ mesh \in Meshes
  /\ pc = "real"
  /\ cur = <<1, 0>>
  /\ oe = [x \in Elements \X (0 .. NSides - 1) |-> NoEdge]
  /\ be = <<>>
  /\ rg = <<>>
  /\ size = [real |-> 0, rg |-> 0, ghost |-> 0]
  /\ ie = [v \in Nodes |-> NoEdge]
  /\ walk = NoWalk

Advance == cur' = IF cur[2] + 1 < SizeOfEdges(cur[1])
                  THEN <<cur[1], cur[2] + 1>> ELSE <<cur[1] + 1, 0>>

InLoop(name, last) == pc = name /\ cur[1] <= last

\* A halfedge of a real element no other element shares.
RealBorderEdge ==
  /\ InLoop("real", mesh.nre)
  /\ Neighbour(cur[1], cur[2]) = 0
  /\ be' = Append(be, cur)
  /\ oe' = [oe EXCEPT ![cur] = Border(Len(be) + 1)]
  /\ Advance
  /\ UNCHANGED <<mesh, pc, rg, size, ie, walk>>

\* A halfedge of a real element whose neighbour is f.
RealInnerEdge ==
  /\ InLoop("real", mesh.nre)
  /\ Neighbour(cur[1], cur[2]) # 0
  /\ LET f   == Neighbour(cur[1], cur[2])
         opp == EdgeInto(f, NodeOf(cur[1], cur[2]))
     IN  IF WithGhost /\ is_ghost_element(f)
         THEN /\ rg' = Append(rg, cur)
              /\ oe' = [oe EXCEPT ![cur] = opp, ![opp] = Border(Len(rg) + 1)]
         ELSE /\ oe' = [oe EXCEPT ![cur] = opp]
              /\ UNCHANGED rg
  /\ Advance
  /\ UNCHANGED <<mesh, pc, be, size, ie, walk>>

\* Mutant: the indices of the real/ghost borders are not renumbered.
UnshiftedBorder(x) == x

\* The real/ghost borders get the indices after the pure real ones.
ShiftedBorder(x) == Border(x[1] + Len(be))

MergeBorders ==
  /\ pc = "real" /\ cur[1] > mesh.nre
  /\ size' = [size EXCEPT !.real = Len(be), !.rg = Len(rg)]
  /\ oe' = [x \in DOMAIN oe |->
              IF \E n \in DOMAIN rg : oe[rg[n]] = x THEN ShiftedBorder(oe[x])
                                                    ELSE oe[x]]
  /\ be' = be \o rg
  /\ rg' = <<>>
  /\ pc' = "ghost"
  /\ UNCHANGED <<mesh, cur, ie, walk>>

\* A halfedge of a ghost element; one with a real neighbour is already linked.
GhostEdge ==
  /\ InLoop("ghost", Cardinality(Elements))
  /\ LET f == Neighbour(cur[1], cur[2])
     IN  \/ /\ f = 0
            /\ be' = Append(be, cur)
            /\ oe' = [oe EXCEPT ![cur] = Border(Len(be) + 1)]
         \/ /\ f # 0 /\ is_real_element(f)
            /\ UNCHANGED <<be, oe>>
         \/ /\ f # 0 /\ ~is_real_element(f)
            /\ oe' = [oe EXCEPT ![cur] = EdgeInto(f, NodeOf(cur[1], cur[2]))]
            /\ UNCHANGED be
  /\ Advance
  /\ UNCHANGED <<mesh, pc, rg, size, ie, walk>>

EndOpposites ==
  /\ pc = "ghost" /\ cur[1] > Cardinality(Elements)
  /\ size' = [size EXCEPT !.ghost = Len(be) - size.real - size.rg]
  /\ pc' = "corner"
  /\ cur' = <<1, 0>>
  /\ UNCHANGED <<mesh, oe, be, rg, ie, walk>>

\* What a corner gives its node: a border edge unless the node has one of the
\* whole pane, else the halfedge of the first corner.
IncidentAt(old, opp) ==
  IF IsBorder(opp) /\ ~is_border_edge(old) THEN opp
  ELSE IF old = NoEdge THEN cur ELSE old

RealCorner ==
  /\ InLoop("corner", mesh.nre)
  /\ LET v    == NodeOf(cur[1], cur[2])
         prev == <<cur[1], PrevLid(cur[1], cur[2])>>
     IN  ie' = [ie EXCEPT ![v] =
                  IncidentAt(@, get_opposite_real_edge_interior(prev))]
  /\ Advance
  /\ UNCHANGED <<mesh, pc, oe, be, rg, size, walk>>

\* Isolated nodes are numbered after all border edges.
NumberIsolated ==
  /\ pc = "corner" /\ cur[1] > mesh.nre
  /\ LET Isolated(n) == {v \in 1 .. n : ie[v] = NoEdge}
     IN  ie' = [v \in DOMAIN ie |->
                  IF is_real_node(v) /\ ie[v] = NoEdge
                  THEN Border(Len(be) + Cardinality(Isolated(v)))
                  ELSE ie[v]]
  /\ pc' = IF mesh.nrn = Cardinality(Nodes) THEN "ready" ELSE "ghostcorner"
  /\ UNCHANGED <<mesh, cur, oe, be, rg, size, walk>>

\* Real nodes keep what the real elements gave them.
GhostCorner ==
  /\ InLoop("ghostcorner", NumElements)
  /\ LET v    == NodeOf(cur[1], cur[2])
         prev == <<cur[1], PrevLid(cur[1], cur[2])>>
     IN  ie' = IF is_real_node(v) THEN ie
               ELSE [ie EXCEPT ![v] =
                       IncidentAt(@, get_opposite_ghost_edge_interior(prev))]
  /\ Advance
  /\ UNCHANGED <<mesh, pc, oe, be, rg, size, walk>>

EndIncident ==
  /\ pc = "ghostcorner" /\ cur[1] > NumElements
  /\ pc' = "ready"
  /\ UNCHANGED <<mesh, cur, oe, be, rg, size, ie, walk>>

(****************************************************************************)
(* Walking along a border: get_next_edge, get_prev_edge and their variants. *)
(****************************************************************************)
BorderOf(part, x) ==
  CASE part = "whole" -> is_border_edge(x)
    [] part = "real"  -> is_real_border_edge(x)
    [] part = "ghost" -> is_ghost_border_edge(x)

BeginWalk(part, dir, k) ==
  /\ pc = "ready"
  /\ BorderOf(part, Border(k))
  /\ walk' = [part |-> part, dir |-> dir, from |-> Border(k),
              at |-> OppositeBorder(part, Border(k))]
  /\ pc' = "walk"
  /\ UNCHANGED <<mesh, cur, oe, be, rg, size, ie>>

\* Mutant: the two directions swapped.
TurnSwapped(dir, x) ==
  IF dir = "next" THEN get_next_edge_interior(x) ELSE get_prev_edge_interior(x)

\* The walk to the next border edge turns over the previous halfedges of the
\* elements around the node, the walk back over the next ones.
Turn(dir, x) ==
  IF dir = "next" THEN get_prev_edge_interior(x) ELSE get_next_edge_interior(x)

\* Mutant: the step stays within the element.
TurnOnly(part, dir, x) == Turn(dir, x)

\* One round of the loop: turn, then cross to the neighbouring element.
TurnAndCross(part, dir, x) == OppositeInterior(part, Turn(dir, x))

WalkStep ==
  /\ pc = "walk"
  /\ ~IsBorder(walk.at)
  /\ walk' = [walk EXCEPT !.at = TurnAndCross(walk.part, walk.dir, @)]
  /\ UNCHANGED <<mesh, pc, cur, oe, be, rg, size, ie>>

EndWalk ==
  /\ pc = "walk"
  /\ IsBorder(walk.at)
  /\ walk' = NoWalk
  /\ pc' = "ready"
  /\ UNCHANGED <<mesh, cur, oe, be, rg, size, ie>>

Construct ==
  \/ RealBorderEdge \/ RealInnerEdge \/ MergeBorders \/ GhostEdge
  \/ EndOpposites \/ RealCorner \/ NumberIsolated \/ GhostCorner \/ EndIncident

Walk == WalkStep \/ EndWalk

Next ==
  \/ Construct
  \/ Walk
  \/ \E part \in Parts, dir \in {"next", "prev"} :
        \E k \in 1 .. Len(be) : BeginWalk(part, dir, k)

\* The constructor and a walk are sequential code that runs on; when a client
\* starts a walk is its own affair.
Spec == Init /\ [][Next]_vars /\ WF_vars(Construct) /\ WF_vars(Walk)


(****************************************************************************)
(* Properties.  The reference definitions below use the node lists only.    *)
(****************************************************************************)
PartElements(part) ==
  CASE part = "whole" -> Elements
    [] part = "real"  -> 1 .. mesh.nre
    [] part = "ghost" -> {e \in Elements : is_ghost_element(e)}

PartEdges(part) == Halfedges(PartElements(part))

Ends(x) == <<NodeOf(x[1], x[2]), NodeOf(x[1], NextLid(x[1], x[2]))>>

\* The halfedges of a part that run against x.
Against(part, x) ==
  {y \in PartEdges(part) : Ends(y) = <<Ends(x)[2], Ends(x)[1]>>}

\* The nodes on the border of a part.
RimNodes(part) ==
  {Ends(x)[1] : x \in {y \in PartEdges(part) : Against(part, y) = {}}}
    \cup {Ends(x)[2] : x \in {y \in PartEdges(part) : Against(part, y) = {}}}

Built == pc \in {"ready", "walk"}

EdgeIDs == ((1 .. NumElements) \X (0 .. NSides - 1))
             \cup {Border(k) : k \in 1 .. (NumElements * NSides + mesh.nn)}
             \cup {NoEdge}

TypeOK ==
  /\ pc \in {"real", "ghost", "corner", "ghostcorner", "ready", "walk"}
  /\ cur \in (1 .. NumElements + 1) \X (0 .. NSides - 1)
  /\ oe \in [Elements \X (0 .. NSides - 1) -> EdgeIDs]
  /\ \A n \in DOMAIN be : be[n] \in Halfedges(Elements)
  /\ \A n \in DOMAIN rg : rg[n] \in Halfedges(1 .. mesh.nre)
  /\ size \in [{"real", "rg", "ghost"} -> Nat]
  /\ ie \in [Nodes -> EdgeIDs]
  /\ walk \in [part : Parts \cup {"none"}, dir : {"next", "prev", "none"},
               from : EdgeIDs, at : EdgeIDs]

(* Once the tables stand, the opposite of a halfedge in the whole pane, in    *)
(* the real part and in the ghost part is the halfedge of that part that runs *)
(* against it, or a border edge of that part that leads back to it, whatever  *)
(* the three-way links at the real/ghost interface and their renumbering did. *)
OppositesExact ==
  Built => \A part \in Parts : \A x \in PartEdges(part) :
             LET y == get_opposite(part, x)
             IN  IF Against(part, x) = {}
                 THEN /\ BorderOf(part, y)
                      /\ get_opposite(part, y) = x
                 ELSE y \in Against(part, x)

(* Every node of the real part, and every ghost node, has an incident halfedge*)
(* that leaves it: a border edge exactly when the node is on the rim (of the  *)
(* real part, or of the pane for a ghost node); isolated nodes are told apart.*)
IncidentExact ==
  Built =>
    /\ \A v \in 1 .. mesh.nrn :
         /\ is_isolated_node(v) <=> \A e \in 1 .. mesh.nre :
                                       v \notin Range(mesh.conn[e])
         /\ is_real_border_node(v) <=> v \in RimNodes("real")
         /\ ~is_isolated_node(v) => get_origin(ie[v]) = v
         /\ ~is_isolated_node(v) => get_origin(get_incident_edge(v)) = v
    /\ \A v \in Nodes \ (1 .. mesh.nrn) :
         /\ get_origin(ie[v]) = v
         /\ is_border_node(v) <=> v \in RimNodes("whole")

(* The tables that the constructor builds are right, opposites and incidences.*)
TablesExact == TypeOK /\ OppositesExact /\ IncidentExact

(* A walk from a border edge of a part ends in the border edge of the same    *)
(* part that begins where the first one ended, or ends where it began.        *)
WalksRight ==
  (pc = "walk" /\ IsBorder(walk.at)) =>
    LET Start(x) == Ends(OppositeBorder(walk.part, x))[2]
        Finish(x) == Ends(OppositeBorder(walk.part, x))[1]
    IN  /\ BorderOf(walk.part, walk.at)
        /\ IF walk.dir = "next" THEN Start(walk.at) = Finish(walk.from)
                                ELSE Finish(walk.at) = Start(walk.from)

(* Every walk around a node ends.                                             *)
WalksEnd == pc = "walk" ~> pc = "ready"

=============================================================================
