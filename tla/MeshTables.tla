------------------------------ MODULE MeshTables ------------------------------
(***************************************************************************)
(* The connectivity tables of panes (Connectivity, Pane), and meshes that  *)
(* panes use or clone.                                                     *)
(*                                                                         *)
(* A pane has tables of elements, in the order in which the client made    *)
(* them; elements are numbered through the tables.  The number of elements *)
(* is kept three times: by the tables, in their offsets, and in the        *)
(* dataitem conn of the pane, to which refresh_connectivity brings the     *)
(* others.  A pane that uses the mesh of another has tables of its own,    *)
(* which ask those of the other for their sizes and offsets; it may ignore *)
(* ghosts.                                                                 *)
(*                                                                         *)
(* The tables are "st2" of a structured mesh, whose array is the numbers   *)
(* of nodes and whose ngitems is the number of ghost layers, or those of   *)
(* an unstructured one: "t3" of real elements, "q4" of real elements and   *)
(* then ghosts, "v3" of ghosts.  Clients make real tables before others,   *)
(* and all tables and ghost layers before another pane uses the mesh, for  *)
(* index_offset() counts the ghosts that a user may ignore and a new table *)
(* is not handed on.  A mesh is inherited as a whole, by a pane that has   *)
(* none, so one parent stands for those of its conn, nc and tables.  The   *)
(* arrays of unstructured tables (DataItemArrays) are as long as needed.   *)
(***************************************************************************)
EXTENDS Integers, Sequences, SequencesExt, FiniteSetsExt

CONSTANTS
    Pane,       \* panes, of the same id in different windows
    TableNames, \* names of the unstructured tables, in their order
    Counts,     \* numbers of elements the client gives a table
    Dims,       \* numbers of nodes <<i, j>> of structured meshes
    NoPane

ASSUME MeshAssumption ==
    /\ TableNames \in {<<"t3", "q4", "v3">>, <<"q4", "v3">>}
    /\ Counts \subseteq Nat
    /\ \A d \in Dims : d[1] \in Nat /\ d[2] \in Nat /\ d[1] > 3 /\ d[2] > 3
    /\ NoPane \notin Pane

VARIABLE pane

Names(P) == {P.tables[k].name : k \in DOMAIN P.tables}

NewTable(name) == [name |-> name, nitems |-> -1, ngitems |-> 0, dims |-> <<>>, offset |-> 0]
NewPane == [tables |-> <<>>, parent |-> NoPane, ignore_ghost |-> FALSE,
            conn |-> [nitems |-> 0, ngitems |-> 0], nc |-> [nitems |-> 0, ngitems |-> 0]]

MeshInit == pane = [p \in Pane |-> NewPane]

------------------------------------------------------------------------------
(* Sizes *)

\* root(): the pane whose tables p goes back to, and the panes on the way
Root(p) ==
    LET r[x \in Pane] == IF pane[x].parent = NoPane THEN x ELSE r[pane[x].parent]
    IN r[p]
Chain(p) ==
    LET c[x \in Pane] == {x} \cup IF pane[x].parent = NoPane THEN {} ELSE c[pane[x].parent]
    IN c[p]

\* A pane on the way ignores ghosts.
Ignores(p) == \E x \in Chain(p) : pane[x].ignore_ghost

is_structured(P) == Len(P.tables) = 1 /\ P.tables[1].name = "st2"

\* Of a dataitem with sizes d: ghosts count unless a pane on the way ignores them.
real_items(d) == IF d.nitems <= 0 THEN 0 ELSE d.nitems - d.ngitems
all_items(d, ignore) == IF ignore THEN real_items(d) ELSE Max({0, d.nitems})
ghost_items(d, ignore) == IF ignore THEN 0 ELSE d.ngitems

\* Cells and nodes of a structured mesh inside of g layers
Cells(dims, g) == IF dims = <<>> THEN 0 ELSE Max({0, (dims[1] - 1 - 2 * g) * (dims[2] - 1 - 2 * g)})
NodesWithin(dims, g) == IF dims = <<>> THEN 0 ELSE (dims[1] - 2 * g) * (dims[2] - 2 * g)

\* Of a table t, whose root is s
size_of_elements(s, ignore) == IF s.name = "st2" THEN Cells(s.dims, 0) ELSE all_items(s, ignore)
size_of_ghost_elements(t, s, ignore) ==
    IF s.name = "st2" THEN Cells(s.dims, 0) - Cells(s.dims, t.ngitems) ELSE ghost_items(s, ignore)
size_of_real_elements(t, s) == IF s.name = "st2" THEN Cells(s.dims, t.ngitems) ELSE real_items(s)

Sum(seq) == FoldLeft(LAMBDA a, b : a + b, 0, seq)

Offsets(P) ==
    [k \in DOMAIN P.tables |-> Sum([j \in 1..k - 1 |-> size_of_elements(P.tables[j], P.ignore_ghost)])]

\* For a pane P that uses no other: numbers the elements again and sets the
\* sizes of conn and, of a structured mesh, of nc.
refresh_connectivity(P) ==
    LET All(Of(_)) == Sum([k \in DOMAIN P.tables |-> Of(P.tables[k])])
        E(t) == size_of_elements(t, P.ignore_ghost)
        G(t) == size_of_ghost_elements(t, t, P.ignore_ghost)
        off == Offsets(P)
        t1 == P.tables[1]
    IN [P EXCEPT !.tables = [k \in DOMAIN @ |-> [@[k] EXCEPT !.offset = off[k]]],
                 !.conn = [nitems |-> All(E), ngitems |-> All(G)],
                 !.nc = IF ~is_structured(P) THEN @
                        ELSE [nitems |-> NodesWithin(t1.dims, 0),
                              ngitems |-> NodesWithin(t1.dims, 0) - NodesWithin(t1.dims, t1.ngitems)]]

\* Mutant: the offset of the table's own, which use copied
OwnOffset(p, k) == pane[p].tables[k].offset
index_offset(p, k) == pane[Root(p)].tables[k].offset

\* Pane::connectivity(i): the tables of p that have element i
Tables(p, i) ==
    LET R == pane[Root(p)]
    IN {k \in DOMAIN pane[p].tables :
           /\ index_offset(p, k) < i
           /\ i <= index_offset(p, k) + size_of_elements(R.tables[k], Ignores(p))}

------------------------------------------------------------------------------
(* The client *)

InUse(p) == \E q \in Pane : pane[q].parent = p

\* Pane::connectivity(name, true): a new table is the last.
Inserted(P, name) == IF name \in Names(P) THEN P ELSE [P EXCEPT !.tables = Append(@, NewTable(name))]

Place(name) == CHOOSE i \in DOMAIN TableNames : TableNames[i] = name
MayInsert(p, name) ==
    \/ name \in Names(pane[p])
    \/ ~InUse(p) /\ \A k \in DOMAIN pane[p].tables :
           LET t == pane[p].tables[k].name
           IN t # "st2" /\ Place(t) < Place(name)

\* set_size of an unstructured table
set_table_size(p, name, n, ng) ==
    /\ pane[p].parent = NoPane
    /\ MayInsert(p, name)
    /\ ng \in CASE name = "t3" -> {0} [] name = "q4" -> 0..n [] OTHER -> {n}
    /\ pane' = [pane EXCEPT ![p] =
          LET P == Inserted(@, name)
          IN refresh_connectivity([P EXCEPT !.tables = [k \in DOMAIN @ |->
                IF @[k].name # name THEN @[k] ELSE [@[k] EXCEPT !.nitems = n, !.ngitems = ng]]])]

StructuredOnly(p) == pane[p].parent = NoPane /\ Names(pane[p]) \subseteq {"st2"}

\* set_size of a structured table: the number of ghost layers, which counts
\* once the array is set
set_layers(p, g) ==
    /\ StructuredOnly(p) /\ ~InUse(p)
    /\ g = 0 \/ ~pane[p].ignore_ghost     \* asserted by size_of_elements()
    /\ pane' = [pane EXCEPT ![p] =
          LET P == Inserted(pane[p], "st2")
              t == [P.tables[1] EXCEPT !.nitems = 2, !.ngitems = g]
              Q == [P EXCEPT !.tables = <<t>>]
          IN IF t.dims = <<>> THEN Q ELSE refresh_connectivity(Q)]

\* set_array of a structured table: the numbers of nodes
set_table_array(p, dims) ==
    /\ StructuredOnly(p)
    /\ pane' = [pane EXCEPT ![p] =
          LET P == Inserted(pane[p], "st2")
              t == [P.tables[1] EXCEPT !.nitems = 2, !.dims = dims]
          IN refresh_connectivity([P EXCEPT !.tables = <<t>>])]

\* Nobody asks for a mesh with ghost layers without its ghosts: the test for
\* it comes when the new pane ignores ghosts and answers that it has no layers.
MayInherit(p, q, withghost) ==
    /\ p # q /\ pane[p] = NewPane /\ ~InUse(p) /\ pane[q].tables # <<>>
    /\ withghost \/ "st2" \notin Names(pane[q]) \/ pane[q].tables[1].ngitems = 0

\* use_dataitem of a mesh: the new tables begin as copies of the root's.
use_mesh(p, q, withghost) ==
    /\ MayInherit(p, q, withghost)
    /\ pane' = [pane EXCEPT ![p] =
          [@ EXCEPT !.tables = [k \in DOMAIN pane[q].tables |->
                                   [pane[Root(q)].tables[k] EXCEPT !.offset = pane[q].tables[k].offset, !.dims = <<>>]],
                    !.parent = q, !.ignore_ghost = ~withghost]]

\* What a clone of a dataitem with sizes d has
Cloned(d, ignore, withghost) ==
    IF withghost THEN [nitems |-> all_items(d, ignore), ngitems |-> ghost_items(d, ignore)]
    ELSE [nitems |-> real_items(d), ngitems |-> 0]

\* clone_dataitem of a mesh: copy_array() throws when the array is missing.
clone_mesh(p, q, withghost) ==
    /\ MayInherit(p, q, withghost)
    /\ is_structured(pane[q]) => pane[Root(q)].tables[1].dims # <<>>
    /\ LET R == pane[Root(q)]
           Table(k) ==
               LET c == Cloned(R.tables[k], Ignores(q), withghost)
               IN [R.tables[k] EXCEPT !.nitems = c.nitems, !.ngitems = c.ngitems, !.offset = pane[q].tables[k].offset]
       IN pane' = [pane EXCEPT ![p] = refresh_connectivity(
             [@ EXCEPT !.tables = [k \in DOMAIN R.tables |-> Table(k)], !.ignore_ghost = ~withghost,
                       !.nc = Cloned(R.nc, Ignores(q), withghost)])]

MeshNext ==
    \E p \in Pane :
        \/ \E name \in Range(TableNames), n \in Counts : \E ng \in 0..n : set_table_size(p, name, n, ng)
        \/ \E g \in 0..1 : set_layers(p, g)
        \/ \E dims \in Dims : set_table_array(p, dims)
        \/ \E q \in Pane, withghost \in BOOLEAN : use_mesh(p, q, withghost) \/ clone_mesh(p, q, withghost)

MeshSpec == MeshInit /\ [][MeshNext]_pane

------------------------------------------------------------------------------
(* Properties *)

\* Tables, offsets and sizes of a pane agree, whoever changed the mesh that it
\* uses or that it was cloned from: every element is in one table, the real
\* ones come first, and a structured pane has the nodes of its array.
MeshExact ==
    \A p \in Pane :
        LET R == pane[Root(p)]
            ign == Ignores(p)
            n == all_items(R.conn, ign)
            real == real_items(R.conn)
            Real(k) == size_of_real_elements(pane[p].tables[k], R.tables[k])
        IN /\ n - real = ghost_items(R.conn, ign)
           /\ real = Sum([k \in DOMAIN pane[p].tables |-> Real(k)])
           /\ \A i \in 1..n : /\ Cardinality(Tables(p, i)) = 1
                              /\ ~is_structured(R) => \A k \in Tables(p, i) : i <= real <=> i - index_offset(p, k) <= Real(k)
           /\ is_structured(R) =>
                LET dims == R.tables[1].dims
                IN /\ all_items(R.nc, ign) = NodesWithin(dims, 0)
                   /\ real_items(R.nc) = NodesWithin(dims, pane[p].tables[1].ngitems)
==============================================================================
