-------------------------- MODULE PaneCommunicator ---------------------------
(***************************************************************************)
(* Pane_communicator: the processes of a window exchange the values of     *)
(* nodes that panes share, and of the real nodes, or cells, that are       *)
(* ghosts of other panes, as the functions of Rocmap do.                   *)
(*                                                                         *)
(* All processes call the same functions.  begin_update posts sends and    *)
(* receives for its panes and waits at a barrier; receives are then worked *)
(* off in the order in which they happen to complete (MPI_Waitany), and at *)
(* the end the sends are waited for.  A message goes to the first receive  *)
(* posted for its source, communicator and tag, after the messages sent    *)
(* before it; it may be delayed for any time.                              *)
(*                                                                         *)
(* What they exchange is listed in pconn, which compute_pconn makes from   *)
(* the mesh (PaneConnectivity), for the window itself or for a parent      *)
(* window with more panes.  Dataitems have one component, of integers:     *)
(* val and cval, of nodes and cells, are the client's; nc is where the     *)
(* nodes are, and n_gorder is used by GhostConnectivity.                   *)
(***************************************************************************)
EXTENDS PaneConnectivity

CONSTANTS
    Ranks,          \* processes
    Meshes          \* meshes, with a window, values and what the processes call

Reductions == {"average", "maxabs", "minabs", "diff", "max"}
Ghosts == {"ghost_nodes", "ghost_coords", "ghost_cells"}

\* The panes of the window are among those of the mesh; val and cval are the
\* client's values of nodes and cells.
ASSUME MeshesAssumption ==
    \A m \in Meshes :
        /\ DOMAIN m.owner \subseteq Nat /\ m.win \subseteq DOMAIN m.owner
        /\ m.owner \in [DOMAIN m.owner -> Ranks]
        /\ DOMAIN m.pos = DOMAIN m.owner /\ DOMAIN m.elems = DOMAIN m.owner
        /\ \A p \in DOMAIN m.owner : /\ Len(m.val[p]) = Len(m.pos[p])
                                      /\ Len(m.cval[p]) = Len(m.elems[p])

TagMod == 32768
BuffTypes == {"RNS", "RCS", "SHARED_NODE", "GNR", "GCR"}

VARIABLES
    mesh,           \* the mesh, and what the processes call
    bnodes,         \* pane -> boundary nodes, as its process has collected them
    b2v,            \* b2v_map of each process, while it is in create_b2map
    pconn,          \* pane -> per Buff_type, the panes it communicates with
    eager,          \* MPI buffers messages: sends complete at once
    pc, done,       \* where each process is, and the calls it has finished
    reached,        \* barriers each process has reached
    net,            \* messages sent and not yet received, oldest first
    recvs,          \* _reqs_recv and _reqs_indices of each process
    data,           \* the dataitems: name -> pane -> values
    start           \* the dataitem of each call when it began

vars == <<mesh, bnodes, b2v, pconn, eager, pc, done, reached, net, recvs, data, start>>

Panes == mesh.win
Owner == mesh.owner
Calls == mesh.calls
NPanes == Cardinality(Panes)
LocalPanes(r) == {p \in Panes : Owner[p] = r}
Local(r) == Sorted(LocalPanes(r), LAMBDA a, b : a < b)
owner_rank(p) == IF p \in Panes THEN Owner[p] ELSE -1

\* Internal ids of the panes of the window
lpaneid(p) == Cardinality({q \in Panes : q < p})

Unconnected == [b \in BuffTypes |-> <<>>]

Init ==
    /\ mesh \in Meshes
    /\ bnodes = [p \in DOMAIN mesh.owner |-> {}]
    /\ b2v = [r \in Ranks |-> <<>>]
    /\ pconn = [p \in DOMAIN mesh.owner |-> Unconnected]
    /\ eager \in BOOLEAN
    /\ pc = [r \in Ranks |-> "idle"]
    /\ done = [r \in Ranks |-> 0]
    /\ reached = [r \in Ranks |-> 0]
    /\ net = <<>>
    /\ recvs = [r \in Ranks |-> <<>>]
    /\ data = [val |-> mesh.val, cval |-> mesh.cval, nc |-> mesh.pos,
               n_gorder |-> [p \in DOMAIN mesh.owner |-> <<>>]]
    /\ start = [k \in DOMAIN Calls |-> [p \in Panes |-> <<>>]]

------------------------------------------------------------------------------
(* Tags and channels                                                       *)

Tag(p, q) == 100 + lpaneid(Max({p, q})) * NPanes + lpaneid(Min({p, q}))

\* Mutant: messages between panes of one process look the same both ways.
ShiftNone(b) == 0
\* Messages between panes of one process have the tag of one direction shifted.
Shift(b) == IF b THEN NPanes * NPanes ELSE 0

\* The channel of a message from pane p to pane q: p sends, q receives.
Channel(p, q) ==
    IF Owner[p] = Owner[q]
    THEN [comm |-> "self", from |-> Owner[p], to |-> Owner[q],
          tag |-> (Tag(p, q) % TagMod) + Shift(p > q)]
    ELSE [comm |-> "comm", from |-> Owner[p], to |-> Owner[q], tag |-> Tag(p, q) % TagMod]

\* init_pane_comm_buffers: the entries of the connectivity of the local panes
\* for a type of buffer, without the panes that are not in this window.
Entries(r, btype) ==
    FlattenSeq([i \in DOMAIN Local(r) |->
        LET p == Local(r)[i]
            list == SelectSeq(pconn[p][btype], LAMBDA e : owner_rank(e.pane) >= 0)
        IN [j \in DOMAIN list |-> [p |-> p, q |-> list[j].pane, nodes |-> list[j].nodes]]])

\* Mutant: shared nodes are only received.
SendsGhostsOnly(btype) == btype \in {"RNS", "RCS"}
Sends(btype) == btype \in {"RNS", "RCS", "SHARED_NODE"}
Receives(btype) == btype \in {"SHARED_NODE", "GNR", "GCR"}

\* A pane that shares nodes with itself fills its inbuf and posts nothing.
Posted(r, btype) == SelectSeq(Entries(r, btype), LAMBDA e : btype # "SHARED_NODE" \/ e.p # e.q)

\* The dataitem a call is for
Item(op) ==
    CASE op = "max" -> "n_gorder"
      [] op = "ghost_coords" -> "nc"
      [] op = "ghost_cells" -> "cval"
      [] OTHER -> "val"

Outbuf(item, e) == [k \in DOMAIN e.nodes |-> data[item][e.p][e.nodes[k]]]
Op(r) == Calls[done[r] + 1]

\* begin_update, up to the barrier.  It asserts that no receive is pending.
begin_update(r, btype, next) ==
    LET E == Posted(r, btype)
    IN /\ net' = IF ~Sends(btype) THEN net
                 ELSE net \o [i \in DOMAIN E |-> [ch |-> Channel(E[i].p, E[i].q), p |-> E[i].p,
                                                  q |-> E[i].q, round |-> done[r] + 1,
                                                  len |-> Len(E[i].nodes),
                                                  buf |-> Outbuf(Item(Op(r)), E[i]), list |-> <<>>]]
       /\ recvs' = IF ~Receives(btype) THEN recvs
                   ELSE [recvs EXCEPT ![r] = @ \o
                            [i \in DOMAIN E |-> [ch |-> Channel(E[i].q, E[i].p), p |-> E[i].p,
                                                 q |-> E[i].q, nodes |-> E[i].nodes,
                                                 len |-> Len(E[i].nodes), got |-> <<>>]]]
       /\ reached' = [reached EXCEPT ![r] = @ + 1]
       /\ pc' = [pc EXCEPT ![r] = IF recvs[r] # <<>> THEN "aborted" ELSE next]

------------------------------------------------------------------------------
(* A call: one step per stretch between two points where processes meet.   *)

Begin(r) ==
    /\ pc[r] = "idle" /\ done[r] < Len(Calls)
    /\ Op(r) \in Reductions \cup Ghosts
    /\ begin_update(r, CASE Op(r) \in Reductions -> "SHARED_NODE"
                         [] Op(r) = "ghost_cells" -> "RCS"
                         [] OTHER -> "RNS", "begun")
    /\ start' = [start EXCEPT ![done[r] + 1] =
                    [p \in Panes |-> IF Owner[p] = r THEN data[Item(Op(r))][p] ELSE @[p]]]
    /\ UNCHANGED <<mesh, bnodes, b2v, pconn, eager, done, data>>

AllReached(r) == \A s \in Ranks : reached[s] >= reached[r]

\* Ghosts are received in a second begin_update.
BeginGhosts(r) ==
    /\ pc[r] = "begun" /\ AllReached(r)
    /\ Op(r) \in Ghosts
    /\ begin_update(r, IF Op(r) = "ghost_cells" THEN "GCR" ELSE "GNR", "begun2")
    /\ UNCHANGED <<mesh, bnodes, b2v, pconn, eager, done, data, start>>

Proceed(r) ==
    /\ AllReached(r)
    /\ \/ pc[r] = "begun" /\ Op(r) \notin Ghosts
       \/ pc[r] = "begun2"
    /\ pc' = [pc EXCEPT ![r] = "reduce"]
    /\ UNCHANGED <<mesh, bnodes, b2v, pconn, eager, done, reached, net, recvs, data, start>>

\* MPI: the oldest message of a channel goes to the receive posted first.
Deliver(i) ==
    /\ i \in DOMAIN net
    /\ \A k \in 1..i - 1 : net[k].ch # net[i].ch
    /\ LET r == net[i].ch.to
           waiting == {j \in DOMAIN recvs[r] : recvs[r][j].ch = net[i].ch /\ recvs[r][j].got = <<>>}
       IN /\ waiting # {}
          /\ recvs' = [recvs EXCEPT ![r][Min(waiting)].got = <<net[i]>>]
    /\ net' = RemoveAt(net, i)
    /\ UNCHANGED <<mesh, bnodes, b2v, pconn, eager, pc, done, reached, data, start>>

Abs(x) == IF x < 0 THEN -x ELSE x

\* What the reductions make of the value a received for a node of value b.
Reduced(op, a, b) ==
    CASE op = "average" -> b + a
      [] op = "maxabs" -> IF Abs(a) > Abs(b) THEN a ELSE b
      [] op = "minabs" -> IF Abs(a) < Abs(b) THEN a ELSE b
      [] op = "diff" -> IF a = 0 THEN b ELSE IF b # 0 THEN b - a ELSE a
      [] op = "max" -> IF a > b THEN a ELSE b
      [] OTHER -> a

\* One turn of the loop around MPI_Waitany: a receive that has completed.
ReduceOne(r, j) ==
    /\ pc[r] = "reduce"
    /\ j \in DOMAIN recvs[r]
    /\ recvs[r][j].got # <<>>
    /\ LET q == recvs[r][j]
           buf == q.got[1].buf
       IN data' = [data EXCEPT ![Item(Op(r))][q.p] = [n \in DOMAIN @ |->
                     IF \E k \in DOMAIN q.nodes : q.nodes[k] = n
                     THEN Reduced(Op(r), buf[CHOOSE k \in DOMAIN q.nodes : q.nodes[k] = n], @[n])
                     ELSE @[n]]]
    /\ recvs' = [recvs EXCEPT ![r] = RemoveAt(@, j)]
    /\ UNCHANGED <<mesh, bnodes, b2v, pconn, eager, pc, done, reached, net, start>>

\* Mutant: a node that is met again is not counted again.
MultiplicityTwo(r, p, n) ==
    IF \E i \in DOMAIN Entries(r, "SHARED_NODE") :
        LET e == Entries(r, "SHARED_NODE")[i] IN e.p = p /\ n \in Range(e.nodes)
    THEN 2 ELSE 1
\* Copies of a node that the connectivity of its pane lists; 1 if it has none.
Multiplicity(r, p, n) ==
    1 + Cardinality({i \in DOMAIN Entries(r, "SHARED_NODE") :
            LET e == Entries(r, "SHARED_NODE")[i] IN e.p = p /\ n \in Range(e.nodes)})

\* Division of integers, towards 0
Quot(x, m) == IF x >= 0 THEN x \div m ELSE -((-x) \div m)

\* The division of the average, then MPI_Waitall on the sends.
EndUpdate(r) ==
    /\ pc[r] = "reduce" /\ recvs[r] = <<>>
    /\ data' = IF Op(r) # "average" THEN data
               ELSE [data EXCEPT !.val = [p \in DOMAIN @ |->
                        IF owner_rank(p) # r THEN @[p]
                        ELSE [n \in DOMAIN @[p] |-> Quot(@[p][n], Multiplicity(r, p, n))]]]
    /\ pc' = [pc EXCEPT ![r] = "wait"]
    /\ UNCHANGED <<mesh, bnodes, b2v, pconn, eager, done, reached, net, recvs, start>>

WaitSends(r) ==
    /\ pc[r] = "wait"
    /\ eager \/ \A i \in DOMAIN net : net[i].ch.from # r \/ net[i].round # done[r] + 1
    /\ pc' = [pc EXCEPT ![r] = "idle"]
    /\ done' = [done EXCEPT ![r] = @ + 1]
    /\ UNCHANGED <<mesh, bnodes, b2v, pconn, eager, reached, net, recvs, data, start>>

------------------------------------------------------------------------------
(* compute_pconn.  What it gathers of the other processes is fixed, so the *)
(* reductions and messages it takes are one meeting.                       *)

PconnCalls == {"compute_pconn", "compute_parent_pconn"}
\* The panes of the window a call is for
Scope(call) == IF call = "compute_pconn" THEN Panes ELSE DOMAIN Owner

CollectNodes(r) ==
    /\ pc[r] = "idle" /\ done[r] < Len(Calls)
    /\ Op(r) \in PconnCalls
    /\ bnodes' = [p \in DOMAIN bnodes |->
                     IF p \in Scope(Op(r)) /\ Owner[p] = r
                     THEN get_local_boundary_nodes(mesh, Scope(Op(r)), p)
                     ELSE bnodes[p]]
    /\ reached' = [reached EXCEPT ![r] = @ + 1]
    /\ pc' = [pc EXCEPT ![r] = "collect"]
    /\ UNCHANGED <<mesh, b2v, pconn, eager, done, net, recvs, data, start>>

MatchNodes(r) ==
    /\ pc[r] = "collect" /\ AllReached(r)
    /\ b2v' = [b2v EXCEPT ![r] = b2v_map(mesh, Scope(Op(r)), bnodes, r)]
    /\ pc' = [pc EXCEPT ![r] = "matched"]
    /\ UNCHANGED <<mesh, bnodes, pconn, eager, done, reached, net, recvs, data, start>>

\* The process aborts at a pair of nodes of one remote pane.
compute_pconn(r) ==
    /\ pc[r] = "matched"
    /\ IF PairsAreLocal(mesh, b2v[r], r)
       THEN /\ pconn' = [p \in DOMAIN pconn |->
                    IF p \in Scope(Op(r)) /\ Owner[p] = r
                    THEN [Unconnected EXCEPT !["SHARED_NODE"] = create_b2map(mesh, Scope(Op(r)), b2v[r], p)]
                    ELSE pconn[p]]
            /\ pc' = [pc EXCEPT ![r] = "idle"]
            /\ done' = [done EXCEPT ![r] = @ + 1]
       ELSE pc' = [pc EXCEPT ![r] = "aborted"] /\ UNCHANGED <<pconn, done>>
    /\ b2v' = [b2v EXCEPT ![r] = <<>>]
    /\ UNCHANGED <<mesh, bnodes, eager, reached, net, recvs, data, start>>

Step(r) ==
    \/ Begin(r) \/ BeginGhosts(r) \/ Proceed(r)
    \/ \E j \in DOMAIN recvs[r] : ReduceOne(r, j)
    \/ EndUpdate(r) \/ WaitSends(r)
    \/ CollectNodes(r) \/ MatchNodes(r) \/ compute_pconn(r)

Next == (\E r \in Ranks : Step(r)) \/ (\E i \in DOMAIN net : Deliver(i))

------------------------------------------------------------------------------
(* Properties *)

\* Every process is at one step of a call, messages are between panes of the
\* window, and a receive has at most one of them.
TypeOK ==
    /\ pc \in [Ranks -> {"idle", "collect", "matched", "begun", "begun2", "reduce", "wait", "exchange", "aborted"}]
    /\ done \in [Ranks -> 0..Len(Calls)]
    /\ \A i \in DOMAIN net : net[i].p \in Panes /\ net[i].q \in Panes
    /\ \A r \in Ranks : \A j \in DOMAIN recvs[r] : Len(recvs[r][j].got) \in 0..1

\* The number of the last of the calls C that process r has finished, or 0
Latest(r, C) == Max({0} \cup {k \in 1..done[r] : Calls[k] \in C})

\* When compute_pconn has returned, the lists that two panes have for each other
\* name every pair of nodes that coincide, on the boundary or isolated, once, at
\* the same place of both lists, although each process made its own.  A pane lists
\* the pairs within itself.
PconnExact ==
    \A r, s \in Ranks :
        LET k == Latest(r, PconnCalls)
            P == Scope(Calls[k])
        IN k > 0 /\ Latest(s, PconnCalls) = k =>
            \A p, q \in P : Owner[p] = r /\ Owner[q] = s =>
                LET Listed(x, y) == {e.nodes : e \in {e \in Range(pconn[x]["SHARED_NODE"]) : e.pane = y}}
                IN \A C \in {Coincident(mesh, [x \in P |-> Nodes(mesh, x)], p, q)} :
                    /\ Cardinality(Listed(p, q)) = IF C = {} THEN 0 ELSE 1
                    /\ \A m \in Listed(p, q), n \in Listed(q, p) :
                        IF p = q
                        THEN /\ Len(m) = 2 * Cardinality(C)
                             /\ C = {<<m[2*i - 1], m[2*i]>> : i \in 1..Cardinality(C)}
                        ELSE /\ Len(m) = Cardinality(C) /\ Len(n) = Cardinality(C)
                             /\ C = {<<m[i], n[i]>> : i \in 1..Cardinality(C)}

\* The nodes <<q, m>> of the window where node n of pane p is, itself one
Copies(p, n) ==
    UNION {{<<q, m>> : m \in {m \in DOMAIN mesh.pos[q] : mesh.pos[q][m] = data.nc[p][n]}} : q \in Panes}

\* What value v of node n of pane p may be after call k.  The sign of maxabs,
\* minabs and diff is left open: with opposite values it depends on the copy.
\* A ghost has the value of a copy in another pane.
Right(k, p, n, v) ==
    LET At(c) == start[k][c[1]][c[2]]
        C == Copies(p, n)
        nonzero == {c \in C : At(c) # 0}
        op == Calls[k]
    IN IF op \in Reductions /\ n > Len(mesh.pos[p]) THEN v = start[k][p][n]
       ELSE CASE op = "average" -> v = Quot(MapThenSumSet(At, C), Cardinality(C))
              [] op = "maxabs" -> Abs(v) = Max({Abs(At(c)) : c \in C})
              [] op = "minabs" -> Abs(v) = Min({Abs(At(c)) : c \in C})
              [] op = "max" -> v = Max({At(c) : c \in C})
              [] op = "diff" ->
                   Cardinality(nonzero) = 2 => \E c, d \in nonzero : c # d /\ Abs(v) = Abs(At(c) - At(d))
              [] op = "ghost_nodes" ->
                   IF n <= Len(mesh.pos[p]) THEN v = start[k][p][n]
                   ELSE \E c \in C : v = At(c)
              [] OTHER -> TRUE

\* When a process returns from a call, every value of the nodes of its panes
\* is the one that the values of all processes at the start of this call give
\* for the nodes at the same place: all copies agree, every ghost is its real
\* node, whichever order the messages came in and whichever process was ahead.
CallsExact ==
    \A r \in Ranks : pc[r] = "idle" /\ done[r] > 0 /\ Calls[done[r]] \in Reductions \cup Ghosts =>
        LET item == Item(Calls[done[r]])
        IN \A p \in LocalPanes(r) :
            \A n \in DOMAIN data[item][p] : Right(done[r], p, n, data[item][p][n])
==============================================================================
